---------------------- MODULE QWebSocketStream_proofs -----------------------
(***************************************************************************)
(* Proofs about the stream of bytes between two connected web sockets:     *)
(* what a user is given is what the user at the other end sent, and why a  *)
(* connection is closed.                                                   *)
(***************************************************************************)
EXTENDS QWebSocketPeers_proofs

-----------------------------------------------------------------------------
(* Frames on the wire, whoever has written them.                           *)

\* What a stream of bytes can be divided into, see RawFramesAssumption.
Wire ==
    {f \in Frames : /\ f.form = "7" => f.n <= Len7
                    /\ f.form = "16" => f.n <= Len16
                    /\ WellFormed(f) /\ f.n <= MaxFrame => f.n = Len(f.values)}

Bytes ==
    [fin : BOOLEAN, rsv : BOOLEAN, op : Opcodes] \cup [masked : BOOLEAN, len : Nat]
    \cup [n : Nat] \cup [key : {0, 1}] \cup [v : Nat, m : {0, 1}]

KeyOf(f) == IF f.masked THEN 1 ELSE 0

RawFirst(f) == [fin |-> f.fin, rsv |-> f.rsv, op |-> f.op]
RawSecond(f) ==
    [masked |-> f.masked,
     len |-> CASE f.form = "7" -> f.n [] f.form = "16" -> Len7 + 1 [] OTHER -> Len7 + 2]
RawLength(f) == IF f.form = "7" THEN <<>> ELSE << [n |-> f.n] >>
RawKey(f) == IF f.masked THEN << [key |-> 1] >> ELSE <<>>
RawPayload(f) == Mask(Plain(f.values), KeyOf(f))

\* What follows the length, and what follows the header.
RawAfter(f, rest) == Join(RawKey(f), Join(RawPayload(f), rest))
RawTail(f, rest) == Join(RawLength(f), RawAfter(f, rest))

LEMMA JoinLen ==
    ASSUME NEW S, NEW s \in Seq(S), NEW t \in Seq(S)
    PROVE  /\ Len(Join(s, t)) = Len(s) + Len(t) /\ Len(s) \in Nat /\ Len(t) \in Nat
           /\ Len(Join(s, t)) >= Len(s)
<1>1. Len(s \o t) = Len(s) + Len(t) /\ Len(s) \in Nat /\ Len(t) \in Nat
  BY JoinIs
<1> QED
  BY <1>1 DEF Join

LEMMA RawInOrder ==
    ASSUME NEW f \in Wire, NEW rest \in Seq(Bytes)
    PROVE  /\ Join(RawBytes(f), rest) = << RawFirst(f), RawSecond(f) >> \o RawTail(f, rest)
           /\ RawBytes(f) \in Seq(Bytes) /\ Len(RawBytes(f)) >= 2
           /\ RawFirst(f) \in Bytes /\ RawSecond(f) \in Bytes /\ [n |-> f.n] \in Bytes
           /\ [key |-> 1] \in Bytes
           /\ RawAfter(f, rest) \in Seq(Bytes) /\ RawTail(f, rest) \in Seq(Bytes)
           /\ RawSecond(f).len \in Nat /\ (RawSecond(f).len > Len7 <=> f.form # "7")
<1> DEFINE head == << RawFirst(f), RawSecond(f) >>
<1>0. f \in Frames /\ (f.form = "7" => f.n <= Len7) /\ f.values \in Seq(Nat) /\ f.n \in Nat
  BY DEF Wire, Frames
<1>1. RawBytes(f) = Join(Join(Join(head, RawLength(f)), RawKey(f)), RawPayload(f))
  BY DEF RawBytes, Join, RawFirst, RawSecond, RawLength, RawKey, RawPayload, KeyOf
<1>2. RawSecond(f).len \in Nat /\ (RawSecond(f).len > Len7 <=> f.form # "7")
  BY <1>0, LimitsAssumption DEF RawSecond, Frames
<1>3. RawFirst(f) \in [fin : BOOLEAN, rsv : BOOLEAN, op : Opcodes]
  BY <1>0 DEF RawFirst, Frames
<1>4. RawSecond(f) \in [masked : BOOLEAN, len : Nat]
  BY <1>0, LimitsAssumption DEF RawSecond, Frames
<1>5. [n |-> f.n] \in [n : Nat] /\ [key |-> 1] \in [key : {0, 1}]
  BY <1>0
<1>6. RawFirst(f) \in Bytes /\ RawSecond(f) \in Bytes /\ [n |-> f.n] \in Bytes /\ [key |-> 1] \in Bytes
  BY <1>3, <1>4, <1>5 DEF Bytes
<1>7. head \in Seq(Bytes) /\ Len(head) = 2
  BY <1>6
<1>8. RawLength(f) \in Seq(Bytes) /\ RawKey(f) \in Seq(Bytes)
  BY <1>6 DEF RawLength, RawKey
<1>9. RawPayload(f) \in Seq(Bytes)
  <2>1. KeyOf(f) \in {0, 1}
    BY DEF KeyOf
  <2>2. RawPayload(f) \in Seq(Coded(Nat, KeyOf(f)))
    BY <1>0, <2>1, MaskedBytes DEF RawPayload
  <2>3. Coded(Nat, KeyOf(f)) \subseteq Bytes
    BY <2>1 DEF Coded, Bytes
  <2> QED
    BY <2>2, <2>3, SeqMonotonic
<1> HIDE DEF head
<1>10. Join(RawPayload(f), rest) \in Seq(Bytes)
  BY <1>9, JoinAssoc
<1>11. RawAfter(f, rest) \in Seq(Bytes)
  BY <1>8, <1>10, JoinAssoc DEF RawAfter
<1>12. RawTail(f, rest) \in Seq(Bytes)
  BY <1>8, <1>11, JoinAssoc DEF RawTail
<1>13. /\ Join(head, RawLength(f)) \in Seq(Bytes)
       /\ Join(Join(head, RawLength(f)), RawKey(f)) \in Seq(Bytes)
       /\ RawBytes(f) \in Seq(Bytes)
  BY <1>1, <1>7, <1>8, <1>9, JoinAssoc
<1>14. Join(RawBytes(f), rest) = Join(head, RawTail(f, rest))
  BY <1>1, <1>7, <1>8, <1>9, <1>10, <1>11, <1>13, JoinAssoc DEF RawTail, RawAfter
<1>15. Len(RawBytes(f)) >= 2
  <2>1. Len(Join(head, RawLength(f))) >= 2
    <3>1. Len(Join(head, RawLength(f))) = Len(head) + Len(RawLength(f))
      BY <1>7, <1>8, JoinLen
    <3>2. Len(RawLength(f)) \in Nat
      BY <1>8
    <3> QED
      BY <1>7, <3>1, <3>2
  <2>2. Len(Join(Join(head, RawLength(f)), RawKey(f))) >= 2
    BY <1>8, <1>13, <2>1, JoinLen
  <2>3. Len(Join(Join(Join(head, RawLength(f)), RawKey(f)), RawPayload(f))) >= 2
    BY <1>9, <1>13, <2>2, JoinLen
  <2> QED
    BY <1>1, <2>3
<1> QED
  BY <1>2, <1>6, <1>11, <1>12, <1>13, <1>14, <1>15 DEF head, Join

LEMMA RawLengths ==
    ASSUME NEW f \in Wire, NEW rest \in Seq(Bytes)
    PROVE  LengthsAre(Join(RawBytes(f), rest), "header")
<1> DEFINE first == RawFirst(f)
           second == RawSecond(f)
           tail == RawTail(f, rest)
           all == << first, second >> \o tail
<1>1. /\ Join(RawBytes(f), rest) = all /\ first \in Bytes /\ second \in Bytes
      /\ tail \in Seq(Bytes) /\ [n |-> f.n] \in Bytes /\ RawAfter(f, rest) \in Seq(Bytes)
      /\ second.len \in Nat /\ (second.len > Len7 <=> f.form # "7")
  BY RawInOrder
<1>2. f.n \in Nat
  BY DEF Wire, Frames
<1>3. f.form # "7" => tail[1] = [n |-> f.n]
  BY <1>1, AfterFirst DEF RawTail, RawLength, Join
<1> HIDE DEF first, second, tail
<1>4. all[2] = second /\ Past(all, 2) = tail /\ Len(all) >= 2 /\ all \in Seq(Bytes)
  BY <1>1, AfterTwo
<1> HIDE DEF all
<1>5. Len(all) >= 3 => all[3] = tail[1]
  <2>1. 2 \in 0..Len(all)
    BY <1>4
  <2>2. \A i \in 1..(Len(all) - 2) : Past(all, 2)[i] = all[2 + i]
    BY <1>4, <2>1, PastIs
  <2> QED
    BY <1>4, <2>2
<1>6. LengthsAre(all, "header")
  <2>1. Len(all) >= 3 /\ all[2].len > Len7 => all[3].n = f.n
    BY <1>1, <1>3, <1>4, <1>5
  <2> QED
    BY <1>1, <1>2, <1>4, <2>1 DEF LengthsAre
<1> QED
  BY <1>1, <1>6

LEMMA RawPayloadType ==
    ASSUME NEW f \in Wire, NEW rest \in Seq(Bytes)
    PROVE  RawPayload(f) \in Seq(Bytes) /\ Join(RawPayload(f), rest) \in Seq(Bytes)
<1>1. KeyOf(f) \in {0, 1} /\ f.values \in Seq(Nat)
  BY DEF KeyOf, Wire, Frames
<1>2. RawPayload(f) \in Seq(Coded(Nat, KeyOf(f)))
  BY <1>1, MaskedBytes DEF RawPayload
<1>3. Coded(Nat, KeyOf(f)) \subseteq Bytes
  BY <1>1 DEF Coded, Bytes
<1>4. RawPayload(f) \in Seq(Bytes)
  BY <1>2, <1>3, SeqMonotonic
<1> QED
  BY <1>4, JoinAssoc

LEMMA FailedStays ==
    ASSUME NEW in, NEW code
    PROVE  ReadField(Failed(in, code)) = Failed(in, code)
  BY DoneStays DEF Failed

\* readFrame() refuses a frame that is not legal by itself, whoever wrote it and whatever
\* bytes follow, with 1002 or, when it is only too long, 1009.
THEOREM RawRefused ==
    ASSUME NEW f \in Wire, NEW rest \in Seq(Bytes), ~WellFormed(f) \/ f.n > MaxFrame
    PROVE  \E x : readFrame(NewReader(Join(RawBytes(f), rest)))
                     = Failed(x, IF ~WellFormed(f) THEN CloseCodeProtocolError
                                 ELSE CloseCodeTooMuchData)
<1> DEFINE first == RawFirst(f)
           second == RawSecond(f)
           after == RawAfter(f, rest)
           tail == RawTail(f, rest)
           all == << first, second >> \o tail
           r == NewReader(Join(RawBytes(f), rest))
           code == IF ~WellFormed(f) THEN CloseCodeProtocolError ELSE CloseCodeTooMuchData
           masked == f.masked
           len == [n |-> f.n]
<1>1. /\ Join(RawBytes(f), rest) = all /\ first \in Bytes /\ second \in Bytes
      /\ tail \in Seq(Bytes) /\ len \in Bytes /\ after \in Seq(Bytes)
      /\ [key |-> 1] \in Bytes
      /\ second.len \in Nat /\ (second.len > Len7 <=> f.form # "7")
  BY RawInOrder
<1>2. /\ f.n \in Nat /\ f.form \in {"7", "16", "64"} /\ masked \in BOOLEAN /\ f.op \in Opcodes
      /\ f.fin \in BOOLEAN /\ f.rsv \in BOOLEAN
      /\ f.form = "7" => f.n <= Len7
      /\ f.form = "16" => f.n <= Len16
  BY DEF Wire, Frames
<1>3. /\ Len7 \in Nat /\ Len16 \in Nat /\ MaxFrame \in Nat /\ Len63 \in Nat
      /\ Len7 < Len16 /\ Len16 < MaxFrame
  BY LimitsAssumption
<1>4. /\ first.fin = f.fin /\ first.op = f.op /\ first.rsv = f.rsv
      /\ second.masked = masked
      /\ f.form = "7" => second.len = f.n
      /\ f.form = "16" => second.len = Len7 + 1
      /\ f.form = "64" => second.len = Len7 + 2
  BY <1>2 DEF RawFirst, RawSecond
<1>5. f.form # "7" => tail = <<len>> \o after
  BY DEF RawTail, RawLength, Join
<1>6. len.n = f.n
  OBVIOUS
<1>7. masked => after = << [key |-> 1] >> \o Join(RawPayload(f), rest)
  BY DEF RawAfter, RawKey, Join
<1> HIDE DEF first, second, after, tail, masked, len
<1>8. all[1] = first /\ all[2] = second /\ Past(all, 2) = tail /\ Len(all) >= 2
  BY <1>1, AfterTwo
<1>9. r = Rd(all, "header", Yes, "reservedB", No, 0, 0, <<>>, No, CloseCodeNormal)
  BY <1>1, NewReaderIs
<1> HIDE DEF all
<1>10. r.in = all /\ r.st = "header"
  BY <1>9, RdFields
<1>11. ReadField(r) = ReadHeader(r)
  BY <1>8, <1>10, HeaderStep
<1> DEFINE next == IF masked THEN "mask" ELSE "payload"
<1>12. ReadHeader(r) =
          IF ~checkValidity(first, second) THEN Failed(tail, CloseCodeProtocolError)
          ELSE IF second.len = Len7 + 1
          THEN Rd(tail, "length", f.fin, f.op, masked, 0, 0, <<>>, Yes, CloseCodeNormal)
          ELSE IF second.len = Len7 + 2
          THEN Rd(tail, "bigLength", f.fin, f.op, masked, 0, 0, <<>>, Yes, CloseCodeNormal)
          ELSE Rd(tail, next, f.fin, f.op, masked, 0, second.len, <<>>, Yes, CloseCodeNormal)
  BY <1>4, <1>8, <1>9, HeaderIs
<1> HIDE DEF r
<1>13. checkValidity(first, second) <=>
         /\ ~f.rsv /\ ~isOpCodeReserved(f.op)
         /\ f.op \in Control => f.form = "7" /\ f.fin
  BY <1>1, <1>2, <1>3, <1>4 DEF checkValidity
<1>14. WellFormed(f) <=>
         /\ checkValidity(first, second)
         /\ f.form = "16" => f.n > Len7
         /\ f.form = "64" => f.n > Len16 /\ f.n <= Len63
  BY <1>2, <1>13 DEF WellFormed
<1>15. ASSUME NEW x, ReadField(r) = Failed(x, code)
       PROVE  readFrame(r) = Failed(x, code)
  BY <1>15, ReadFrameIs, FailedStays
<1>16. ASSUME NEW x, ReadField(ReadField(r)) = Failed(x, code)
       PROVE  readFrame(r) = Failed(x, code)
  BY <1>16, ReadFrameIs, FailedStays
<1>17. CASE ~checkValidity(first, second)
  <2>1. ~WellFormed(f) /\ code = CloseCodeProtocolError
    BY <1>14, <1>17
  <2>2. ReadField(r) = Failed(tail, code)
    BY <1>11, <1>12, <1>17, <2>1
  <2>3. readFrame(r) = Failed(tail, code)
    BY <1>15, <2>2
  <2> QED
    BY <2>3 DEF r
<1>18. CASE checkValidity(first, second)
  <2> DEFINE st == IF f.form = "16" THEN "length" ELSE "bigLength"
             u == Rd(tail, st, f.fin, f.op, masked, 0, 0, <<>>, Yes, CloseCodeNormal)
  <2>1. f.form # "7"
    BY <1>2, <1>3, <1>14, <1>18
  <2>2. st \in {"length", "bigLength"} /\ (st = "length" <=> f.form = "16")
    OBVIOUS
  <2>3. ReadField(r) = u
    <3>1. CASE f.form = "16"
      BY <1>4, <1>11, <1>12, <1>18, <3>1
    <3>2. CASE f.form = "64"
      <4>1. second.len = Len7 + 2 /\ second.len # Len7 + 1
        BY <1>3, <1>4, <3>2
      <4> QED
        BY <1>11, <1>12, <1>18, <3>2, <4>1
    <3> QED
      BY <1>2, <2>1, <3>1, <3>2
  <2>4. tail[1] = len /\ Past(tail, 1) = after /\ Len(tail) >= 1
    BY <1>1, <1>5, <2>1, AfterFirst
  <2> HIDE DEF st
  <2>5. u.in = tail /\ u.st = st
    BY RdFields
  <2>6. ReadField(u) = ReadLength(u)
    BY <2>2, <2>4, <2>5, LengthStep
  <2>7. ReadLength(u) =
           IF BadLength(st, f.n) THEN Failed(after, CloseCodeProtocolError)
           ELSE Rd(after, next, f.fin, f.op, masked, 0, f.n, <<>>, Yes, CloseCodeNormal)
    BY <1>6, <2>2, <2>4, LengthIs
  <2>8. BadLength(st, f.n) <=> ~WellFormed(f)
    BY <1>2, <1>3, <1>14, <1>18, <2>1, <2>2 DEF BadLength
  <2>9. CASE ~WellFormed(f)
    <3>1. code = CloseCodeProtocolError
      BY <2>9
    <3>2. ReadField(ReadField(r)) = Failed(after, code)
      BY <2>3, <2>6, <2>7, <2>8, <2>9, <3>1
    <3>3. readFrame(r) = Failed(after, code)
      BY <1>16, <3>2
    <3> QED
      BY <3>3 DEF r
  <2>10. CASE WellFormed(f)
    <3>1. f.n > MaxFrame /\ code = CloseCodeTooMuchData
      BY <2>10
    <3>2. ASSUME NEW in, NEW key, NEW t,
                 in \in Seq(Bytes),
                 t = Rd(in, "payload", f.fin, f.op, masked, key, f.n, <<>>, Yes, CloseCodeNormal)
          PROVE  ReadField(t) = Failed(in, code)
      <4>1. t.in = in /\ t.st = "payload" /\ t.plen = f.n
        BY <3>2, RdFields
      <4>2. ReadPayload(t) = Failed(in, CloseCodeTooMuchData)
        BY <3>1, <3>2, PayloadIs
      <4>4. Len(in) >= 0
        BY <3>2
      <4> QED
        BY <3>1, <4>1, <4>2, <4>4, PayloadRefusedStep
    <3> DEFINE s == Rd(after, next, f.fin, f.op, masked, 0, f.n, <<>>, Yes, CloseCodeNormal)
    <3>3. ReadField(ReadField(r)) = s
      BY <2>3, <2>6, <2>7, <2>8, <2>10
    <3>4. CASE ~masked
      <4>1. s = Rd(after, "payload", f.fin, f.op, masked, 0, f.n, <<>>, Yes, CloseCodeNormal)
        BY <3>4
      <4>2. ReadField(s) = Failed(after, code)
        BY <1>1, <3>2, <4>1
      <4> HIDE DEF s, code, u
      <4> QED
        BY <3>3, <4>2, ReadFrameIs, FailedStays DEF r, code
    <3>5. CASE masked
      <4> DEFINE rest2 == Past(after, 1)
                 t == Rd(rest2, "payload", f.fin, f.op, masked, after[1].key, f.n, <<>>,
                         Yes, CloseCodeNormal)
      <4>1. s = Rd(after, "mask", f.fin, f.op, masked, 0, f.n, <<>>, Yes, CloseCodeNormal)
        BY <3>5
      <4>2. s.in = after /\ s.st = "mask"
        BY <4>1, RdFields
      <4>3. Len(after) >= 1
        BY <1>1, <1>7, <3>5, RawPayloadType, AfterFirst
      <4>4. ReadField(s) = ReadMask(s)
        BY <4>2, <4>3, MaskStep
      <4>5. ReadField(s) = t
        BY <4>1, <4>4, MaskIs
      <4>7. rest2 \in Seq(Bytes)
        BY <1>1, <4>3, PastIs
      <4>6. ReadField(t) = Failed(rest2, code)
        BY <3>2, <4>7
      <4> HIDE DEF s, code, u, t, rest2
      <4> QED
        BY <3>3, <4>5, <4>6, ReadFrameIs DEF r, code
    <3> QED
      BY <3>4, <3>5
  <2> QED
    BY <2>9, <2>10
<1> QED
  BY <1>17, <1>18

\* The form that the library gives to a length.
Form(n) == IF n <= Len7 THEN "7" ELSE IF n <= Len16 THEN "16" ELSE "64"

LEMMA RawIsWritten ==
    ASSUME NEW f \in Frames, ~f.rsv, f.n = Len(f.values), f.form = Form(f.n)
    PROVE  RawBytes(f) = FrameBytes(f.op, f.values, KeyOf(f), f.fin)
<1> DEFINE n == Len(f.values)
           key == KeyOf(f)
           payload == Mask(Plain(f.values), key)
<1>1. n \in Nat /\ f.n = n /\ f.form = Form(n) /\ f.fin \in BOOLEAN /\ f.masked \in BOOLEAN
  BY DEF Frames
<1>2. (key # 0) = f.masked /\ (f.masked => key = 1) /\ (~f.masked => key = 0)
  BY <1>1 DEF KeyOf
<1>3. [fin |-> f.fin, rsv |-> f.rsv, op |-> f.op] = FirstByte(f.op, f.fin)
  <2>1. f.rsv = FALSE
    BY DEF Frames
  <2> QED
    BY <2>1 DEF FirstByte
<1> HIDE DEF key, n
<1>4. [masked |-> f.masked,
       len |-> CASE f.form = "7" -> f.n [] f.form = "16" -> Len7 + 1 [] OTHER -> Len7 + 2]
         = SecondByte(n, key)
  BY <1>1, <1>2, LimitsAssumption DEF SecondByte, Form
<1>5. (IF f.form = "7" THEN <<>> ELSE <<[n |-> f.n]>>) = LengthBytes(n)
  BY <1>1, LimitsAssumption DEF LengthBytes, Form
<1>6. (IF f.masked THEN <<[key |-> 1]>> ELSE <<>>) = KeyBytes(key)
  BY <1>1, <1>2 DEF KeyBytes
<1>7. Mask(Plain(f.values), IF f.masked THEN 1 ELSE 0) = payload
  BY DEF key, KeyOf
<1> HIDE DEF payload
<1>8. RawBytes(f) = ((<<FirstByte(f.op, f.fin), SecondByte(n, key)>> \o LengthBytes(n))
                     \o KeyBytes(key)) \o payload
  BY <1>3, <1>4, <1>5, <1>6, <1>7 DEF RawBytes
<1>9. FrameBytes(f.op, f.values, KeyOf(f), f.fin)
         = ((<<FirstByte(f.op, f.fin), SecondByte(n, key)>> \o LengthBytes(n))
            \o KeyBytes(key)) \o payload
  BY DEF FrameBytes, getFrameHeader, FirstByte, SecondByte, LengthBytes, KeyBytes, n, key, payload
<1> QED
  BY <1>8, <1>9

\* A frame that the library writes.
AsFrame(op, values, key, fn) ==
    [fin |-> fn, rsv |-> FALSE, op |-> op, form |-> Form(Len(values)), n |-> Len(values),
     masked |-> key # 0, values |-> values]

LEMMA WrittenIsRaw ==
    ASSUME NEW op \in Opcodes, NEW values \in Seq(Nat), NEW key \in {0, 1}, NEW fn \in BOOLEAN,
           NEW f, f = AsFrame(op, values, key, fn)
    PROVE  /\ f \in Wire /\ RawBytes(f) = FrameBytes(op, values, key, fn)
           /\ f.op = op /\ f.values = values /\ f.fin = fn /\ f.n = Len(values)
           /\ WellFormed(f) <=> /\ ~isOpCodeReserved(op)
                                /\ op \in Control => fn /\ Len(values) <= Len7
                                /\ Len(values) <= Len63
<1>1. Len(values) \in Nat /\ Form(Len(values)) \in {"7", "16", "64"}
  BY DEF Form
<1>2. /\ f.op = op /\ f.values = values /\ f.fin = fn /\ f.n = Len(values) /\ ~f.rsv
      /\ f.form = Form(Len(values)) /\ f.masked = (key # 0)
  BY DEF AsFrame
<1>3. f \in Frames
  BY <1>1 DEF AsFrame, Frames
<1>4. /\ f.form = "7" <=> f.n <= Len7
      /\ f.form = "16" <=> f.n > Len7 /\ f.n <= Len16
      /\ f.form = "64" <=> f.n > Len16
  BY <1>1, <1>2, LimitsAssumption DEF Form
<1>5. f \in Wire
  BY <1>1, <1>2, <1>3, <1>4 DEF Wire
<1>6. WellFormed(f) <=> /\ ~isOpCodeReserved(op)
                        /\ op \in Control => fn /\ Len(values) <= Len7
                        /\ Len(values) <= Len63
  <2> DEFINE long == CASE f.form = "7" -> f.n <= Len7
                       [] f.form = "16" -> f.n > Len7
                       [] f.form = "64" -> f.n > Len16 /\ f.n <= Len63
  <2>1. Len7 \in Nat /\ Len16 \in Nat /\ Len63 \in Nat /\ Len7 < Len16 /\ Len16 < Len63
    BY LimitsAssumption
  <2>2. CASE f.form = "7"
    <3>1. long <=> f.n <= Len7
      BY <2>2
    <3> QED
      BY <1>1, <1>2, <1>4, <2>1, <2>2, <3>1 DEF WellFormed
  <2>3. CASE f.form = "16"
    <3>1. long <=> f.n > Len7
      BY <2>3
    <3> QED
      BY <1>1, <1>2, <1>4, <2>1, <2>3, <3>1 DEF WellFormed
  <2>4. CASE f.form = "64"
    <3>1. long <=> f.n > Len16 /\ f.n <= Len63
      BY <2>4
    <3> QED
      BY <1>1, <1>2, <1>4, <2>1, <2>4, <3>1 DEF WellFormed
  <2> QED
    BY <1>1, <1>2, <2>2, <2>3, <2>4
<1>7. KeyOf(f) = key
  BY <1>2 DEF KeyOf
<1>8. RawBytes(f) = FrameBytes(f.op, f.values, KeyOf(f), f.fin)
  BY <1>2, <1>3, RawIsWritten
<1> QED
  BY <1>2, <1>5, <1>6, <1>7, <1>8

\* A frame that is legal by itself and not too large is read as it was written.
LEMMA RawReceived ==
    ASSUME NEW f \in Wire, NEW rest \in Seq(Bytes), WellFormed(f), f.n <= MaxFrame
    PROVE  readFrame(NewReader(Join(RawBytes(f), rest)))
              = Received(f.op, f.values, KeyOf(f), f.fin, rest)
<1>1. /\ f \in Frames /\ f.values \in Seq(Nat) /\ f.n \in Nat /\ f.form \in {"7", "16", "64"}
      /\ f.n = Len(f.values)
      /\ f.form = "7" => f.n <= Len7
      /\ f.form = "16" => f.n <= Len16
  BY DEF Wire, Frames
<1>2. /\ f.form = "16" => f.n > Len7
      /\ f.form = "64" => f.n > Len16
      /\ ~f.rsv /\ ~isOpCodeReserved(f.op)
      /\ f.op \in Control => f.fin /\ f.form = "7"
  BY <1>1 DEF WellFormed
<1>3. f.form = Form(f.n)
  BY <1>1, <1>2, LimitsAssumption DEF Form
<1>4. RawBytes(f) = FrameBytes(f.op, f.values, KeyOf(f), f.fin)
  BY <1>1, <1>2, <1>3, RawIsWritten
<1>5. Writable(f.op, f.values, f.fin)
  BY <1>1, <1>2 DEF Writable
<1>6. KeyOf(f) \in {0, 1}
  BY DEF KeyOf
<1>7. readFrame(NewReader(FrameBytes(f.op, f.values, KeyOf(f), f.fin) \o rest))
         = Received(f.op, f.values, KeyOf(f), f.fin, rest)
  BY <1>1, <1>5, <1>6, RoundTrip
<1> QED
  BY <1>4, <1>7 DEF Join

-----------------------------------------------------------------------------
(* What a call of readFrame returns is the first frame on the wire.        *)

LEMMA ReadyField ==
    ASSUME NEW S, NEW bytes \in Seq(S), NEW r, Ready(S, r, bytes)
    PROVE  Ready(S, ReadField(r), bytes)
<1>1. CASE CanRead(r)
  BY <1>1, FieldMore
<1>2. CASE ~CanRead(r)
  BY <1>2, StuckField
<1> QED
  BY <1>1, <1>2

LEMMA ReadyFrame ==
    ASSUME NEW S, NEW front \in Seq(S), NEW back \in Seq(S),
           LengthsAre(front, "header"), LengthsAre(front \o back, "header"), NEW r,
           r = readFrame(NewReader(front))
    PROVE  Ready(S, r, back)
<1> DEFINE s == NewReader(front)
<1>1. s = Rd(front, "header", Yes, "reservedB", No, 0, 0, <<>>, No, CloseCodeNormal)
  BY NewReaderIs
<1>2. r = readFrame(s)
  OBVIOUS
<1> HIDE DEF s
<1>3. s.in = front /\ s.st = "header" /\ s.plen = 0
  BY <1>1, RdFields
<1>4. Known(s)
  <2>1. LegalOp(No, "reservedB") /\ "header" \in Stages
    BY DEF LegalOp, No, Stages
  <2> QED
    BY <1>1, <2>1, RdIsReader
<1>5. Ready(S, s, back)
  BY <1>3, <1>4 DEF Ready, Measured
<1>6. Ready(S, ReadField(s), back)
  BY <1>5, ReadyField
<1>7. Ready(S, ReadField(ReadField(s)), back)
  BY <1>6, ReadyField
<1>8. Ready(S, ReadField(ReadField(ReadField(s))), back)
  BY <1>7, ReadyField
<1>9. Ready(S, ReadField(ReadField(ReadField(ReadField(s)))), back)
  BY <1>8, ReadyField
<1> QED
  BY <1>2, <1>9, ReadFrameIs

\* A call that has returned does not look at what comes later.
LEMMA DoneMore ==
    ASSUME NEW S, NEW front \in Seq(S), NEW back \in Seq(S),
           LengthsAre(front, "header"), LengthsAre(front \o back, "header"), NEW r,
           r = readFrame(NewReader(front)), r.st = "done"
    PROVE  /\ readFrame(NewReader(front \o back)) = More(r, back)
           /\ r.in \in Seq(S) /\ IsReader(r)
<1>1. Ready(S, r, back)
  BY ReadyFrame
<1>2. IsReader(r) /\ r.in \in Seq(S)
  BY <1>1 DEF Ready, Known, Measured
<1>3. Known(More(r, back)) /\ More(r, back).st = "done"
  BY <1>1, MoreKnown DEF Ready
<1>4. ~CanRead(More(r, back))
  BY <1>3 DEF CanRead
<1>5. readFrame(More(r, back)) = More(r, back)
  BY <1>4, StuckField, ReadFrameIs
<1>6. readFrame(More(r, back)) = readFrame(NewReader(front \o back))
  BY TwoSegments
<1> QED
  BY <1>2, <1>5, <1>6

\* r, read from the front of a stream, is what the processor is to make of frame f.
Returns(r, f) ==
    /\ WellFormed(f) /\ f.n <= MaxFrame => Got(r, f)
    /\ ~WellFormed(f) => ~r.valid /\ r.code = CloseCodeProtocolError
    /\ WellFormed(f) /\ f.n > MaxFrame => ~r.valid /\ r.code = CloseCodeTooMuchData

LEMMA FirstFrame ==
    ASSUME NEW f \in Wire, NEW front \in Seq(Bytes), NEW back \in Seq(Bytes),
           NEW rest \in Seq(Bytes), Join(front, back) = Join(RawBytes(f), rest),
           NEW r, r = readFrame(NewReader(front)), r.st = "done"
    PROVE  /\ Returns(r, f)
           /\ r.in \in Seq(Bytes)
           /\ WellFormed(f) /\ f.n <= MaxFrame => Join(r.in, back) = rest
<1> DEFINE all == Join(front, back)
           m == More(r, back)
<1>1. LengthsAre(front \o back, "header")
  BY RawLengths DEF Join
<1>2. LengthsAre(front, "header")
  BY <1>1, LengthsOfFront
<1>3. readFrame(NewReader(all)) = m /\ r.in \in Seq(Bytes) /\ IsReader(r)
  <2>1. ASSUME NEW S, S = Bytes
        PROVE  readFrame(NewReader(front \o back)) = More(r, back) /\ r.in \in Seq(S) /\ IsReader(r)
    <3>1. front \in Seq(S) /\ back \in Seq(S)
      BY <2>1
    <3> QED
      BY <1>1, <1>2, <3>1, DoneMore
  <2>2. readFrame(NewReader(front \o back)) = More(r, back)
    BY <2>1
  <2>3. r.in \in Seq(Bytes) /\ IsReader(r)
    BY <2>1
  <2> QED
    BY <2>2, <2>3 DEF Join
<1>4. m = Rd(Join(r.in, back), r.st, r.fin, r.op, r.masked, r.key, r.plen, r.payload, r.valid, r.code)
  <2>1. r = Rd(r.in, r.st, r.fin, r.op, r.masked, r.key, r.plen, r.payload, r.valid, r.code)
    BY <1>3 DEF IsReader
  <2> DEFINE in == r.in  st == r.st  fn == r.fin  op == r.op  masked == r.masked  key == r.key
             plen == r.plen  payload == r.payload  valid == r.valid  code == r.code
  <2>2. r = Rd(in, st, fn, op, masked, key, plen, payload, valid, code)
    BY <2>1
  <2> HIDE DEF in, st, fn, op, masked, key, plen, payload, valid, code
  <2>3. More(r, back) = Rd(in \o back, st, fn, op, masked, key, plen, payload, valid, code)
    BY <2>2, MoreIs
  <2> QED
    BY <2>3 DEF Join, in, st, fn, op, masked, key, plen, payload, valid, code
<1> HIDE DEF m
<1>5. /\ m.in = Join(r.in, back) /\ m.fin = r.fin /\ m.op = r.op
      /\ m.payload = r.payload /\ m.valid = r.valid /\ m.code = r.code
  BY <1>4, RdFields
<1>6. m = readFrame(NewReader(Join(RawBytes(f), rest)))
  BY <1>3
<1> HIDE DEF all
<1>7. ASSUME WellFormed(f), f.n <= MaxFrame
      PROVE  Got(r, f) /\ Join(r.in, back) = rest
  <2> DEFINE n == Len(f.values)
             key == KeyOf(f)
             masked == key # 0
             plain == Plain(f.values)
  <2>1. m = Received(f.op, f.values, KeyOf(f), f.fin, rest)
    BY <1>6, <1>7, RawReceived
  <2>2. m = Rd(rest, "done", f.fin, f.op, masked, key, n, plain, Yes, CloseCodeNormal)
    BY <2>1 DEF Received
  <2> HIDE DEF n, key, masked, plain
  <2>3. m.in = rest /\ m.fin = f.fin /\ m.op = f.op /\ m.payload = plain /\ m.valid = Yes
    BY <2>2, RdFields
  <2> QED
    BY <1>5, <2>3 DEF Got, Yes, plain
<1>8. ASSUME ~WellFormed(f) \/ f.n > MaxFrame
      PROVE  /\ ~r.valid
             /\ r.code = IF ~WellFormed(f) THEN CloseCodeProtocolError ELSE CloseCodeTooMuchData
  <2> DEFINE code == IF ~WellFormed(f) THEN CloseCodeProtocolError ELSE CloseCodeTooMuchData
  <2>1. PICK x : m = Failed(x, code)
    BY <1>6, <1>8, RawRefused
  <2> HIDE DEF code
  <2>2. m.valid = No /\ m.code = code
    BY <2>1, RdFields DEF Failed
  <2> QED
    BY <1>5, <2>2 DEF No, code
<1> QED
  BY <1>3, <1>7, <1>8 DEF Returns

-----------------------------------------------------------------------------
(* What comes of the next frame.                                           *)

\* The rule that a frame breaks, by the code that the connection is failed with.
Fault(h, f, code) ==
    \/ code = CloseCodeProtocolError /\ Breaks(h, f)
    \/ code = CloseCodeTooMuchData /\ Exceeds(h, f)
    \/ code = CloseCodeWrongDatatype /\ Garbles(h, f)

Completes(h, f, out) ==
    /\ Fits(h, f) /\ IsData(f) /\ f.fin
    /\ out = Outcome(ProcessorOf(Append(h, f)), TRUE, MessageSignal(NextOp(h, f), NextData(h, f)))

Continues(h, f, out) ==
    /\ Fits(h, f) /\ IsData(f) /\ ~f.fin
    /\ out = Outcome(ProcessorOf(Append(h, f)), FALSE, Signal("none"))

Controls(h, f, out) ==
    /\ Fits(h, f) /\ ~IsData(f) /\ f.op \in {"ping", "pong"} /\ WellFormed(f)
    /\ f.n <= Len7 /\ f.n = Len(f.values)
    /\ out = Outcome(ProcessorOf(Append(h, f)), TRUE, [Signal(f.op) EXCEPT !.data = f.values])

ClosesThen(h, f, out) ==
    /\ Fits(h, f) /\ f.op = "close"
    /\ out = Outcome(ProcessorOf(h), TRUE, CloseSignal(f.values))

Fails(h, f, out) ==
    \E code \in {CloseCodeProtocolError, CloseCodeTooMuchData, CloseCodeWrongDatatype} :
        Fault(h, f, code) /\ out = Fail(code)

\* process() makes of a frame what the whole history of frames makes of it: the last
\* fragment of a legal message is delivered with the message that MessagesOf says, another
\* legal fragment is kept, a control frame leaves a message under way alone, and any other
\* frame fails with the code of a rule that it breaks.
THEOREM FrameOutcome ==
    ASSUME NEW h \in Seq(Frames), NEW f \in Wire, Decoded(h), NEW r, Returns(r, f),
           NEW out, out = processFrame(ProcessorOf(h), r)
    PROVE  \/ Completes(h, f, out) \/ Continues(h, f, out) \/ Controls(h, f, out)
           \/ ClosesThen(h, f, out) \/ Fails(h, f, out)
<1>1. f \in Frames /\ f.n \in Nat /\ (WellFormed(f) /\ f.n <= MaxFrame => f.n = Len(f.values))
  BY DEF Wire, Frames
<1>2. MaxFrame \in Nat /\ Len7 \in Nat /\ Len7 < MaxFrame
  BY LimitsAssumption
<1>3. CASE ~WellFormed(f)
  <2>1. out = Fail(CloseCodeProtocolError)
    BY <1>3 DEF Returns, processFrame
  <2>2. Breaks(h, f)
    BY <1>3 DEF Breaks
  <2> QED
    BY <2>1, <2>2 DEF Fails, Fault
<1>4. CASE WellFormed(f) /\ f.n > MaxFrame
  <2>1. out = Fail(CloseCodeTooMuchData)
    BY <1>4 DEF Returns, processFrame
  <2>2. Exceeds(h, f)
    BY <1>4 DEF Exceeds
  <2> QED
    BY <2>1, <2>2 DEF Fails, Fault
<1>5. CASE WellFormed(f) /\ f.n <= MaxFrame /\ IsData(f)
  <2>1. Got(r, f)
    BY <1>5 DEF Returns
  <2>2. ASSUME NEW g, g = Append(h, f)
        PROVE  out =
              IF Breaks(h, f) THEN Fail(CloseCodeProtocolError)
              ELSE IF Exceeds(h, f) THEN Fail(CloseCodeTooMuchData)
              ELSE IF Garbles(h, f) THEN Fail(CloseCodeWrongDatatype)
              ELSE IF f.fin
              THEN Outcome(ProcessorOf(g), TRUE, MessageSignal(NextOp(h, f), NextData(h, f)))
              ELSE Outcome(ProcessorOf(g), FALSE, Signal("none"))
    BY <1>1, <1>5, <2>1, <2>2, DataFrameThen
  <2>3. CASE Breaks(h, f)
    BY <2>2, <2>3 DEF Fails, Fault
  <2>4. CASE ~Breaks(h, f) /\ Exceeds(h, f)
    BY <2>2, <2>4 DEF Fails, Fault
  <2>5. CASE ~Breaks(h, f) /\ ~Exceeds(h, f) /\ Garbles(h, f)
    BY <2>2, <2>5 DEF Fails, Fault
  <2>6. CASE Fits(h, f)
    <3>1. ~Breaks(h, f) /\ ~Exceeds(h, f) /\ ~Garbles(h, f)
      BY <2>6 DEF Fits
    <3>2. CASE f.fin
      BY <1>5, <2>2, <2>6, <3>1, <3>2 DEF Completes
    <3>3. CASE ~f.fin
      BY <1>5, <2>2, <2>6, <3>1, <3>3 DEF Continues
    <3> QED
      BY <3>2, <3>3
  <2> QED
    BY <2>3, <2>4, <2>5, <2>6 DEF Fits
<1>6. CASE WellFormed(f) /\ f.n <= MaxFrame /\ ~IsData(f)
  <2>1. Got(r, f)
    BY <1>6 DEF Returns
  <2>2. ASSUME NEW g, g = Append(h, f)
        PROVE  /\ Fits(h, f) /\ f.op \in {"close", "ping", "pong"} /\ f.fin /\ f.n <= Len7
               /\ ProcessorOf(g) = ProcessorOf(h)
               /\ f.op = "close" => out = Outcome(ProcessorOf(h), TRUE, CloseSignal(f.values))
               /\ f.op # "close" =>
                    out = Outcome(ProcessorOf(h), TRUE, [Signal(f.op) EXCEPT !.data = f.values])
    BY <1>1, <1>6, <2>1, <2>2, ControlFrameThen
  <2>3. CASE f.op = "close"
    BY <2>2, <2>3 DEF ClosesThen
  <2>4. CASE f.op # "close"
    <3>1. f.op \in {"ping", "pong"}
      BY <2>2, <2>4
    <3> QED
      BY <1>1, <1>6, <2>2, <2>4, <3>1 DEF Controls
  <2> QED
    BY <2>3, <2>4
<1> QED
  BY <1>1, <1>2, <1>3, <1>4, <1>5, <1>6

LEMMA OutcomeIs ==
    ASSUME NEW p, NEW done, NEW signal, NEW out, out = Outcome(p, done, signal)
    PROVE  out.p = p /\ out.done = done /\ out.signal = signal
  BY DEF Outcome

LEMMA SignalIs ==
    ASSUME NEW k, NEW x, NEW y
    PROVE  /\ Signal(k).kind = k /\ Signal(k).data = <<>> /\ Signal(k).code = CloseCodeNormal
           /\ [Signal(k) EXCEPT !.data = x].kind = k
           /\ [Signal(k) EXCEPT !.data = x].data = x
           /\ MessageSignal(x, y).kind = "message" /\ MessageSignal(x, y).op = x
           /\ MessageSignal(x, y).data = y
  BY DEF Signal, MessageSignal

\* What process() makes of a close frame.
LEMMA CloseFrameIs ==
    ASSUME NEW values \in Seq(Nat), NEW s, s = CloseSignal(values),
           NEW reason, reason = SubSeq(values, 3, Len(values))
    PROVE  /\ s.kind = "close" /\ s.code \in Nat /\ s.data \in Seq(Nat)
           /\ LegalText(s.data, TRUE)
           /\ values = <<>> => s.code = CloseCodeNormal
           /\ Len(values) = 1 \/ (Len(values) > 1 /\ ~isCloseCodeValid(values[1]))
                => s.code = CloseCodeProtocolError
           /\ Len(values) > 1 /\ isCloseCodeValid(values[1]) =>
                s.code = IF LegalText(reason, TRUE) THEN values[1] ELSE CloseCodeWrongDatatype
<1> DEFINE signal(code, data) == [Signal("close") EXCEPT !.code = code, !.data = data]
<1>1. ASSUME NEW code, NEW data
      PROVE  signal(code, data).kind = "close" /\ signal(code, data).code = code
             /\ signal(code, data).data = data
  BY DEF Signal
<1>2. s = CASE values = <<>> -> signal(CloseCodeNormal, <<>>)
            [] Len(values) = 1 -> signal(CloseCodeProtocolError, <<>>)
            [] Len(values) > 1 /\ ~isCloseCodeValid(values[1]) -> signal(CloseCodeProtocolError, <<>>)
            [] OTHER -> IF ValidUtf8(reason, 0) /\ RemainingChars(reason, 0) = 0
                        THEN signal(values[1], reason)
                        ELSE signal(CloseCodeWrongDatatype, <<>>)
  BY DEF CloseSignal
<1> DEFINE sound == isCloseCodeValid(values[1])
           legal == LegalText(reason, TRUE)
           n == Len(values)
           first == values[1]
<1>3. LegalText(<<>>, TRUE) /\ <<>> \in Seq(Nat)
  BY DEF LegalText
<1>4. n \in Nat /\ (values = <<>> <=> n = 0) /\ (n > 1 => first \in Nat)
  OBVIOUS
<1>5. CloseCodeNormal \in Nat /\ CloseCodeProtocolError \in Nat /\ CloseCodeWrongDatatype \in Nat
  BY DEF CloseCodeNormal, CloseCodeProtocolError, CloseCodeWrongDatatype
<1>6. reason \in Seq(Nat)
  OBVIOUS
<1>7. legal <=> ValidUtf8(reason, 0) /\ RemainingChars(reason, 0) = 0
  BY <1>6, ReasonText
<1>8. sound \in BOOLEAN /\ legal \in BOOLEAN
  BY DEF isCloseCodeValid, LegalText
<1> DEFINE decoded == ValidUtf8(reason, 0) /\ RemainingChars(reason, 0) = 0
<1>9. s = CASE values = <<>> -> signal(CloseCodeNormal, <<>>)
            [] n = 1 -> signal(CloseCodeProtocolError, <<>>)
            [] n > 1 /\ ~sound -> signal(CloseCodeProtocolError, <<>>)
            [] OTHER -> IF decoded THEN signal(first, reason)
                        ELSE signal(CloseCodeWrongDatatype, <<>>)
  BY <1>2
<1>10. decoded = legal
  BY <1>7, <1>8
<1>11. LegalText(reason, TRUE) <=> legal
  OBVIOUS
<1> HIDE DEF signal, sound, legal, decoded, n, first
<1>12. \/ n = 0 /\ s = signal(CloseCodeNormal, <<>>)
       \/ (n = 1 \/ (n > 1 /\ ~sound)) /\ s = signal(CloseCodeProtocolError, <<>>)
       \/ n > 1 /\ sound /\ legal /\ s = signal(first, reason)
       \/ n > 1 /\ sound /\ ~legal /\ s = signal(CloseCodeWrongDatatype, <<>>)
  <2>1. n = 0 \/ n = 1 \/ n > 1
    BY <1>4
  <2>2. CASE n = 0
    BY <1>4, <1>9, <2>2
  <2>3. CASE n = 1
    BY <1>4, <1>9, <2>3
  <2>4. CASE n > 1
    <3>1. values # <<>> /\ n # 1
      BY <1>4, <2>4
    <3>2. CASE sound
      BY <1>8, <1>9, <1>10, <2>4, <3>1, <3>2
    <3>3. CASE ~sound
      BY <1>9, <2>4, <3>1, <3>3
    <3> QED
      BY <3>2, <3>3
  <2> QED
    BY <2>1, <2>2, <2>3, <2>4
<1>13. /\ s.kind = "close" /\ s.code \in Nat /\ s.data \in Seq(Nat)
       /\ LegalText(s.data, TRUE)
  <2>1. PICK a \in Nat, b \in Seq(Nat) : LegalText(b, TRUE) /\ s = signal(a, b)
    <3>1. CASE n = 0 /\ s = signal(CloseCodeNormal, <<>>)
      BY <1>3, <1>5, <3>1
    <3>2. CASE s = signal(CloseCodeProtocolError, <<>>)
      BY <1>3, <1>5, <3>2
    <3>3. CASE n > 1 /\ legal /\ s = signal(first, reason)
      BY <1>4, <1>6, <1>11, <3>3
    <3>4. CASE s = signal(CloseCodeWrongDatatype, <<>>)
      BY <1>3, <1>5, <3>4
    <3> QED
      BY <1>12, <3>1, <3>2, <3>3, <3>4
  <2>2. s.kind = "close" /\ s.code = a /\ s.data = b
    BY <1>1, <2>1
  <2> QED
    BY <2>1, <2>2
<1>14. /\ n = 0 => s.code = CloseCodeNormal
       /\ n = 1 \/ (n > 1 /\ ~sound) => s.code = CloseCodeProtocolError
       /\ n > 1 /\ sound => s.code = IF legal THEN first ELSE CloseCodeWrongDatatype
  BY <1>1, <1>4, <1>12
<1> QED
  BY <1>4, <1>13, <1>14 DEF n, sound, legal, first

-----------------------------------------------------------------------------
(* The bytes of a sequence of frames.                                      *)

Raws(F) == [i \in 1..Len(F) |-> RawBytes(F[i])]
BytesOf(F) == FlattenSeq(Raws(F))

LEMMA WireFrames == Wire \subseteq Frames /\ Seq(Wire) \subseteq Seq(Frames)
<1>1. Wire \subseteq Frames
  BY DEF Wire
<1> QED
  BY <1>1, SeqMonotonic

LEMMA RawType ==
    ASSUME NEW f \in Wire
    PROVE  RawBytes(f) \in Seq(Bytes) /\ RawBytes(f) # <<>>
<1>1. <<>> \in Seq(Bytes)
  OBVIOUS
<1>2. RawBytes(f) \in Seq(Bytes) /\ Len(RawBytes(f)) >= 2
  BY <1>1, RawInOrder
<1> QED
  BY <1>2

LEMMA RawsType ==
    ASSUME NEW F \in Seq(Wire)
    PROVE  /\ Raws(F) \in Seq(Seq(Bytes)) /\ Len(Raws(F)) = Len(F)
           /\ \A i \in 1..Len(F) : Raws(F)[i] = RawBytes(F[i])
           /\ BytesOf(F) \in Seq(Bytes)
<1>1. \A i \in 1..Len(F) : RawBytes(F[i]) \in Seq(Bytes)
  BY RawType
<1>2. Len(F) \in Nat
  OBVIOUS
<1>3. Raws(F) \in Seq(Seq(Bytes)) /\ Len(Raws(F)) = Len(F)
  BY <1>1, <1>2 DEF Raws
<1>4. BytesOf(F) \in Seq(Bytes)
  BY <1>3, FlattenType DEF BytesOf
<1> QED
  BY <1>3, <1>4 DEF Raws

LEMMA BytesJoin ==
    ASSUME NEW F \in Seq(Wire), NEW G \in Seq(Wire)
    PROVE  /\ BytesOf(Join(F, G)) = Join(BytesOf(F), BytesOf(G))
           /\ Join(F, G) \in Seq(Wire)
<1> DEFINE J == Join(F, G)
           a == Raws(F)
           b == Raws(G)
           c == Raws(J)
<1>1. /\ J \in Seq(Wire) /\ Len(J) = Len(F) + Len(G) /\ Len(F) \in Nat /\ Len(G) \in Nat
      /\ \A i \in 1..Len(F) : J[i] = F[i]
      /\ \A i \in 1..Len(G) : J[Len(F) + i] = G[i]
  BY JoinIs DEF Join
<1> HIDE DEF J
<1>2. /\ a \in Seq(Seq(Bytes)) /\ Len(a) = Len(F) /\ \A i \in 1..Len(F) : a[i] = RawBytes(F[i])
      /\ b \in Seq(Seq(Bytes)) /\ Len(b) = Len(G) /\ \A i \in 1..Len(G) : b[i] = RawBytes(G[i])
      /\ c \in Seq(Seq(Bytes)) /\ Len(c) = Len(J) /\ \A i \in 1..Len(J) : c[i] = RawBytes(J[i])
  BY <1>1, RawsType
<1> HIDE DEF a, b, c
<1>3. /\ a \o b \in Seq(Seq(Bytes)) /\ Len(a \o b) = Len(a) + Len(b)
      /\ \A i \in 1..Len(a) : (a \o b)[i] = a[i]
      /\ \A i \in 1..Len(b) : (a \o b)[Len(a) + i] = b[i]
  <2>1. ASSUME NEW S, a \in Seq(S), b \in Seq(S)
        PROVE  /\ a \o b \in Seq(S) /\ Len(a \o b) = Len(a) + Len(b)
               /\ \A i \in 1..Len(a) : (a \o b)[i] = a[i]
               /\ \A i \in 1..Len(b) : (a \o b)[Len(a) + i] = b[i]
    BY <2>1, JoinIs
  <2> QED
    BY <1>2, <2>1
<1>4. \A i \in 1..Len(c) : c[i] = (a \o b)[i]
  <2> SUFFICES ASSUME NEW i \in 1..Len(c) PROVE c[i] = (a \o b)[i]
    OBVIOUS
  <2>1. CASE i <= Len(F)
    <3>1. i \in 1..Len(F)
      BY <1>1, <1>2, <2>1
    <3> QED
      BY <1>1, <1>2, <1>3, <3>1
  <2>2. CASE i > Len(F)
    <3>1. PICK k \in 1..Len(G) : i = Len(F) + k
      <4>1. i - Len(F) \in 1..Len(G) /\ i = Len(F) + (i - Len(F))
        BY <1>1, <1>2, <2>2
      <4> QED
        BY <4>1
    <3>2. c[i] = RawBytes(G[k])
      BY <1>1, <1>2, <3>1
    <3>3. (a \o b)[i] = b[k]
      BY <1>2, <1>3, <3>1
    <3> QED
      BY <1>2, <3>2, <3>3
  <2> QED
    BY <1>1, <1>2, <2>1, <2>2
<1>5. c = a \o b
  BY <1>1, <1>2, <1>3, <1>4, SameSeq
<1>6. FlattenSeq(Join(a, b)) = Join(FlattenSeq(a), FlattenSeq(b))
  BY <1>2, FlattenJoin
<1> QED
  BY <1>1, <1>5, <1>6 DEF BytesOf, J, a, b, c, Join

LEMMA BytesOne ==
    ASSUME NEW f \in Wire
    PROVE  BytesOf(<<f>>) = RawBytes(f) /\ <<f>> \in Seq(Wire)
<1>1. RawBytes(f) \in Seq(Bytes)
  BY RawType
<1>2. <<f>> \in Seq(Wire)
  OBVIOUS
<1>3. Raws(<<f>>) = << RawBytes(f) >>
  BY DEF Raws
<1> QED
  BY <1>1, <1>2, <1>3, FlattenOne DEF BytesOf

LEMMA BytesNone == BytesOf(<<>>) = <<>> /\ <<>> \in Seq(Wire)
<1>1. Raws(<<>>) = <<>>
  BY DEF Raws
<1> QED
  BY <1>1, FlattenNone DEF BytesOf

LEMMA BytesFirst ==
    ASSUME NEW F \in Seq(Wire), F # <<>>
    PROVE  /\ BytesOf(F) = Join(RawBytes(F[1]), BytesOf(Tail(F)))
           /\ F[1] \in Wire /\ Tail(F) \in Seq(Wire) /\ F = Join(<<F[1]>>, Tail(F))
<1>1. F[1] \in Wire /\ Tail(F) \in Seq(Wire) /\ <<F[1]>> \in Seq(Wire)
  OBVIOUS
<1>2. F = Join(<<F[1]>>, Tail(F))
  BY DEF Join
<1> DEFINE x == F[1]
           t == Tail(F)
<1>3. BytesOf(Join(<<x>>, t)) = Join(BytesOf(<<x>>), BytesOf(t))
  BY <1>1, BytesJoin
<1>4. BytesOf(<<x>>) = RawBytes(x)
  BY <1>1, BytesOne
<1> QED
  BY <1>1, <1>2, <1>3, <1>4

-----------------------------------------------------------------------------
(* More frames leave the messages of those before them as they are.        *)

Starts(s, t) == Len(s) <= Len(t) /\ \A i \in 1..Len(s) : t[i] = s[i]

LEMMA StartsAppend ==
    ASSUME NEW S, NEW s \in Seq(S), NEW t \in Seq(S), Starts(s, t), NEW x \in S
    PROVE  Starts(s, Append(t, x))
  BY DEF Starts

LEMMA StartsTrans ==
    ASSUME NEW S, NEW s \in Seq(S), NEW t \in Seq(S), NEW u \in Seq(S), Starts(s, t), Starts(t, u)
    PROVE  Starts(s, u)
  BY DEF Starts

LEMMA StartsSelf ==
    ASSUME NEW S, NEW s \in Seq(S)
    PROVE  Starts(s, s)
  BY DEF Starts

LEMMA MessagesJoin ==
    ASSUME NEW h \in Seq(Frames), NEW t \in Seq(Frames)
    PROVE  /\ Starts(MessagesOf(h), MessagesOf(Join(h, t)))
           /\ ~AllRead(h) => ~AllRead(Join(h, t)) /\ MessagesOf(Join(h, t)) = MessagesOf(h)
<1> DEFINE J(n) == Join(h, SubSeq(t, 1, n))
           P(g) == /\ Starts(MessagesOf(h), MessagesOf(g))
                   /\ ~AllRead(h) => ~AllRead(g) /\ MessagesOf(g) = MessagesOf(h)
           T == {n \in Nat : n <= Len(t) => P(J(n))}
<1>1. 0 \in T
  <2>1. J(0) = h
    BY FrontNone, JoinNone
  <2>2. Starts(MessagesOf(h), MessagesOf(h))
    BY GivenType, StartsSelf
  <2>3. P(h)
    BY <2>2
  <2> HIDE DEF P, J
  <2> QED
    BY <2>1, <2>3
<1>2. ASSUME NEW n \in Nat, n \in T
      PROVE  n + 1 \in T
  <2> SUFFICES ASSUME n + 1 <= Len(t) PROVE P(J(n + 1))
    BY <1>2
  <2>1. P(J(n))
    BY <1>2
  <2> DEFINE f == t[n + 1]
             u == SubSeq(t, 1, n)
             g == J(n)
  <2>2. SubSeq(t, 1, n + 1) = Append(u, f) /\ u \in Seq(Frames) /\ f \in Frames
    BY FrontGrows
  <2>3. J(n + 1) = Append(g, f) /\ g \in Seq(Frames)
    <3>3. g = Join(h, u)
      OBVIOUS
    <3>4. J(n + 1) = Join(h, Append(u, f))
      BY <2>2
    <3> HIDE DEF f, u, g, J
    <3>1. Join(h, Append(u, f)) = Append(Join(h, u), f)
      BY <2>2, JoinLast
    <3>2. Join(h, u) \in Seq(Frames)
      BY <2>2, JoinAssoc
    <3> QED
      BY <3>1, <3>2, <3>3, <3>4
  <2> HIDE DEF f, g, J, P
  <2>4. P(g)
    BY <2>1 DEF g
  <2> SUFFICES P(Append(g, f))
    BY <2>3
  <2>5. f \in Frames
    BY <2>2
  <2> DEFINE next == Append(g, f)
             m == [op |-> NextOp(g, f), data |-> NextData(g, f)]
  <2>6. MessagesOf(next) =
              IF AllRead(g) /\ Fits(g, f) /\ IsData(f) /\ f.fin
              THEN Append(MessagesOf(g), m) ELSE MessagesOf(g)
    BY <2>3, <2>5, MessagesThen
  <2>7. AllRead(next) <=> AllRead(g) /\ Fits(g, f) /\ f.op # "close"
    BY <2>3, <2>5, AllReadThen
  <2>8. m \in Msgs
    <3>1. NextData(g, f) \in Seq(Nat) /\ NextOp(g, f) \in Opcodes
      BY <2>3, <2>5, FrameThen
    <3> QED
      BY <3>1 DEF Msgs
  <2> HIDE DEF next, m
  <2>9. MessagesOf(g) \in Seq(Msgs) /\ MessagesOf(h) \in Seq(Msgs)
    BY <2>3, GivenType
  <2>10. Starts(MessagesOf(h), MessagesOf(g))
    BY <2>4 DEF P
  <2>11. Starts(MessagesOf(h), MessagesOf(next))
    <3>1. Starts(MessagesOf(h), Append(MessagesOf(g), m))
      BY <2>8, <2>9, <2>10, StartsAppend
    <3> QED
      BY <2>6, <2>10, <3>1
  <2>12. ~AllRead(h) => ~AllRead(next) /\ MessagesOf(next) = MessagesOf(h)
    BY <2>4, <2>6, <2>7 DEF P
  <2> QED
    BY <2>11, <2>12 DEF P, next
<1> HIDE DEF T
<1>3. Nat \subseteq T
  BY <1>1, <1>2, Induction
<1>4. Len(t) \in T
  BY <1>3
<1>5. P(J(Len(t)))
  BY <1>4 DEF T
<1>6. J(Len(t)) = Join(h, t)
  BY FrontNone
<1> HIDE DEF J, P
<1>7. P(Join(h, t))
  BY <1>5, <1>6
<1> QED
  BY <1>7 DEF P

-----------------------------------------------------------------------------
(* A message that is sent: the frames it is cut into.                      *)

\* The bytes of the first n frames of a message of len bytes.
Upto(n, len) == IF n * FrameSize < len THEN n * FrameSize ELSE len

Piece(data, i) == SubSeq(data, (i - 1) * FrameSize + 1, Upto(i, Len(data)))

LEMMA MiddleIs ==
    ASSUME NEW S, NEW s \in Seq(S), NEW a \in Nat, NEW b \in Nat, a <= b, b <= Len(s)
    PROVE  /\ SubSeq(s, a + 1, b) \in Seq(S) /\ Len(SubSeq(s, a + 1, b)) = b - a
           /\ \A i \in 1..(b - a) : SubSeq(s, a + 1, b)[i] = s[a + i]
           /\ SubSeq(s, 1, b) \in Seq(S) /\ Len(SubSeq(s, 1, b)) = b
           /\ \A i \in 1..b : SubSeq(s, 1, b)[i] = s[i]
  OBVIOUS

LEMMA FrontIs ==
    ASSUME NEW S, NEW s \in Seq(S), NEW b \in 0..Len(s)
    PROVE  /\ SubSeq(s, 1, b) \in Seq(S) /\ Len(SubSeq(s, 1, b)) = b
           /\ \A i \in 1..b : SubSeq(s, 1, b)[i] = s[i]
  OBVIOUS

LEMMA CutIs ==
    ASSUME NEW data \in Seq(Nat), NEW N, N = NumFrames(data), NEW L, L = Len(data)
    PROVE  /\ N \in Nat /\ N >= 1 /\ L \in Nat
           /\ N * FrameSize >= L
           /\ \A n \in 0..(N - 1) : n * FrameSize <= L /\ (n > 0 => n * FrameSize < L)
           /\ \A n \in Nat : n * FrameSize \in Nat /\ (n + 1) * FrameSize = n * FrameSize + FrameSize
<1>1. FrameSize \in Nat /\ FrameSize >= 1 /\ L \in Nat /\ (L = 0 <=> data = <<>>)
  BY LimitsAssumption
<1>2. \A n \in Nat : n * FrameSize \in Nat /\ (n + 1) * FrameSize = n * FrameSize + FrameSize
  BY <1>1
<1>3. CASE L = 0
  <2>1. N = 1
    BY <1>1, <1>3 DEF NumFrames
  <2>2. 1 * FrameSize >= L /\ 0 * FrameSize <= L
    BY <1>1, <1>3
  <2>3. 0..(N - 1) = {0}
    BY <2>1
  <2> QED
    BY <1>1, <1>2, <2>1, <2>2, <2>3
<1>4. CASE L >= 1
  <2>1. N = (L + FrameSize - 1) \div FrameSize
    BY <1>1, <1>4 DEF NumFrames
  <2>2. ASSUME NEW a \in Nat, NEW b \in Nat, b >= 1, NEW q, q = a \div b
        PROVE  q \in Nat /\ q * b <= a /\ a < q * b + b
    BY <2>2
  <2>3. N \in Nat /\ N * FrameSize <= L + FrameSize - 1
        /\ L + FrameSize - 1 < N * FrameSize + FrameSize
    <3> DEFINE a == L + FrameSize - 1
    <3>1. a \in Nat /\ N = a \div FrameSize
      BY <1>1, <1>4, <2>1
    <3> HIDE DEF a
    <3>2. N \in Nat /\ N * FrameSize <= a /\ a < N * FrameSize + FrameSize
      BY <1>1, <2>2, <3>1
    <3> QED
      BY <3>2 DEF a
  <2>4. N >= 1 /\ N * FrameSize >= L
    BY <1>1, <1>4, <2>3
  <2>5. \A n \in 0..(N - 1) : n * FrameSize < L
    <3> SUFFICES ASSUME NEW n \in 0..(N - 1) PROVE n * FrameSize < L
      OBVIOUS
    <3>1. n * FrameSize <= (N - 1) * FrameSize
      <4>1. ASSUME NEW x \in Nat, NEW k \in Nat, NEW z \in Nat
            PROVE  x * z <= (x + k) * z
        <5>1. (x + k) * z = x * z + k * z
          OBVIOUS
        <5>2. k * z \in Nat /\ x * z \in Nat
          OBVIOUS
        <5> QED
          BY <5>1, <5>2
      <4>2. n \in Nat /\ (N - 1) - n \in Nat /\ N - 1 = n + ((N - 1) - n)
        BY <2>3
      <4> QED
        BY <1>1, <4>1, <4>2
    <3>2. (N - 1) * FrameSize = N * FrameSize - FrameSize
      BY <1>1, <2>3
    <3>3. n * FrameSize \in Nat /\ N * FrameSize \in Nat
      BY <1>1, <2>3
    <3> QED
      BY <1>1, <2>3, <3>1, <3>2, <3>3
  <2>6. \A n \in 0..(N - 1) : n * FrameSize <= L /\ (n > 0 => n * FrameSize < L)
    <3> SUFFICES ASSUME NEW n \in 0..(N - 1) PROVE n * FrameSize <= L
      BY <2>5
    <3>1. n * FrameSize < L /\ n * FrameSize \in Nat
      BY <1>2, <2>3, <2>5
    <3> QED
      BY <1>1, <3>1
  <2> QED
    BY <1>1, <1>2, <2>3, <2>4, <2>6
<1> QED
  BY <1>1, <1>3, <1>4

LEMMA PieceIs ==
    ASSUME NEW data \in Seq(Nat), NEW N, N = NumFrames(data), NEW L, L = Len(data),
           NEW n \in 0..(N - 1)
    PROVE  /\ Piece(data, n + 1) \in Seq(Nat) /\ Len(Piece(data, n + 1)) <= FrameSize
           /\ Len(Piece(data, n + 1)) + Upto(n, L) <= L
           /\ SubSeq(data, 1, Upto(n + 1, L)) = Join(SubSeq(data, 1, Upto(n, L)), Piece(data, n + 1))
           /\ Upto(n, L) \in 0..L /\ Upto(n + 1, L) \in 0..L
           /\ n + 1 = N => Upto(n + 1, L) = L
           /\ Upto(0, L) = 0
<1>1. /\ N \in Nat /\ N >= 1 /\ L \in Nat
      /\ N * FrameSize >= L
      /\ n * FrameSize <= L /\ (n > 0 => n * FrameSize < L)
      /\ n * FrameSize \in Nat /\ (n + 1) * FrameSize = n * FrameSize + FrameSize
      /\ \A k \in Nat : k * FrameSize \in Nat
  <2>1. /\ N \in Nat /\ N >= 1 /\ L \in Nat
        /\ N * FrameSize >= L
        /\ \A k \in 0..(N - 1) : k * FrameSize <= L /\ (k > 0 => k * FrameSize < L)
        /\ \A k \in Nat : k * FrameSize \in Nat /\ (k + 1) * FrameSize = k * FrameSize + FrameSize
    BY CutIs
  <2>2. n \in Nat
    OBVIOUS
  <2> QED
    BY <2>1, <2>2
<1>2. FrameSize \in Nat /\ FrameSize >= 1
  BY LimitsAssumption
<1> DEFINE a == n * FrameSize
           b == Upto(n + 1, L)
<1>3. Upto(n, L) = a /\ a \in 0..L
  BY <1>1 DEF Upto
<1>4. b = (IF a + FrameSize < L THEN a + FrameSize ELSE L)
  BY <1>1 DEF Upto
<1>5. b \in 0..L /\ a <= b /\ b - a <= FrameSize
  <2> HIDE DEF a, b
  <2> QED
    BY <1>1, <1>2, <1>3, <1>4
<1>6. n + 1 = N => b = L
  <2>1. n + 1 = N => a + FrameSize >= L
    BY <1>1
  <2> HIDE DEF a, b
  <2> QED
    BY <1>1, <1>2, <1>3, <1>4, <2>1
<1>7. Piece(data, n + 1) = SubSeq(data, a + 1, b)
  <2>1. (n + 1) - 1 = n
    BY <1>1
  <2> QED
    BY <2>1 DEF Piece
<1>8. Upto(0, L) = 0
  <2>1. 0 * FrameSize = 0
    BY <1>2
  <2> QED
    BY <1>1, <2>1 DEF Upto
<1> HIDE DEF a, b
<1>14. a \in Nat /\ b \in Nat /\ a <= b /\ b <= Len(data) /\ a <= Len(data)
  BY <1>1, <1>3, <1>5
<1>9. /\ SubSeq(data, a + 1, b) \in Seq(Nat) /\ Len(SubSeq(data, a + 1, b)) = b - a
      /\ \A i \in 1..(b - a) : SubSeq(data, a + 1, b)[i] = data[a + i]
  <2>1. ASSUME NEW c \in Nat, NEW d \in Nat, c <= d, d <= Len(data)
        PROVE  /\ SubSeq(data, c + 1, d) \in Seq(Nat) /\ Len(SubSeq(data, c + 1, d)) = d - c
               /\ \A i \in 1..(d - c) : SubSeq(data, c + 1, d)[i] = data[c + i]
    BY <2>1
  <2> QED
    BY <1>14, <2>1
<1>10. /\ SubSeq(data, 1, a) \in Seq(Nat) /\ Len(SubSeq(data, 1, a)) = a
       /\ \A i \in 1..a : SubSeq(data, 1, a)[i] = data[i]
  <2>1. a <= a
    BY <1>14
  <2> QED
    BY <1>14, <2>1, MiddleIs
<1>11. /\ SubSeq(data, 1, b) \in Seq(Nat) /\ Len(SubSeq(data, 1, b)) = b
       /\ \A i \in 1..b : SubSeq(data, 1, b)[i] = data[i]
  BY <1>14, MiddleIs
<1>12. SubSeq(data, 1, b) = Join(SubSeq(data, 1, a), SubSeq(data, a + 1, b))
  <2> DEFINE x == SubSeq(data, 1, a)
             y == SubSeq(data, a + 1, b)
             z == SubSeq(data, 1, b)
  <2>1. /\ x \o y \in Seq(Nat) /\ Len(x \o y) = Len(x) + Len(y)
        /\ \A i \in 1..Len(x) : (x \o y)[i] = x[i]
        /\ \A i \in 1..Len(y) : (x \o y)[Len(x) + i] = y[i]
    <3>1. x \in Seq(Nat) /\ y \in Seq(Nat)
      BY <1>9, <1>10
    <3> HIDE DEF x, y
    <3> QED
      BY <3>1, JoinIs
  <2>2. Len(x) = a /\ Len(y) = b - a /\ Len(z) = b /\ z \in Seq(Nat)
        /\ (\A i \in 1..a : x[i] = data[i]) /\ (\A i \in 1..(b - a) : y[i] = data[a + i])
        /\ (\A i \in 1..b : z[i] = data[i])
    BY <1>9, <1>10, <1>11
  <2> HIDE DEF x, y, z
  <2>3. \A i \in 1..b : z[i] = (x \o y)[i]
    <3> SUFFICES ASSUME NEW i \in 1..b PROVE z[i] = (x \o y)[i]
      OBVIOUS
    <3>1. CASE i <= a
      BY <1>3, <2>1, <2>2, <3>1
    <3>2. CASE i > a
      <4>1. PICK k \in 1..(b - a) : i = a + k
        <5>1. i - a \in 1..(b - a) /\ i = a + (i - a)
          BY <1>14, <3>2
        <5> QED
          BY <5>1
      <4>2. (x \o y)[a + k] = y[k]
        BY <2>1, <2>2
      <4> QED
        BY <2>2, <4>1, <4>2
    <3>3. i \in Nat
      BY <1>14
    <3>4. i <= a \/ i > a
      BY <1>14, <3>3
    <3> QED
      BY <3>1, <3>2, <3>4
  <2>4. Len(x \o y) = b
    BY <1>3, <1>5, <2>1, <2>2
  <2>5. z = x \o y
    BY <2>1, <2>2, <2>3, <2>4, SameSeq
  <2> QED
    BY <2>5 DEF Join, x, y, z
<1>13. Len(SubSeq(data, a + 1, b)) <= FrameSize /\ Len(SubSeq(data, a + 1, b)) + a <= L
  BY <1>1, <1>2, <1>3, <1>5, <1>9
<1> QED
  BY <1>3, <1>5, <1>6, <1>7, <1>8, <1>9, <1>12, <1>13 DEF b

\* What is legal text is legal text as far as it has come.
LEMMA TextPrefix ==
    ASSUME NEW data \in Seq(Nat), LegalText(data, TRUE), NEW b \in 0..Len(data), NEW fn \in BOOLEAN,
           fn => b = Len(data)
    PROVE  LegalText(SubSeq(data, 1, b), fn)
<1> DEFINE s == SubSeq(data, 1, b)
<1>1. s \in Seq(Nat) /\ Len(s) = b /\ \A i \in 1..b : s[i] = data[i]
  BY MiddleIs
<1>2. b = Len(data) => s = data
  BY FrontNone
<1> HIDE DEF s
<1>3. \A k \in DOMAIN s : s[k] = Trail <=> k > 1 /\ s[k - 1] = Lead
  <2> SUFFICES ASSUME NEW k \in 1..b PROVE s[k] = Trail <=> k > 1 /\ s[k - 1] = Lead
    BY <1>1
  <2>1. k \in DOMAIN data /\ s[k] = data[k] /\ (k > 1 => s[k - 1] = data[k - 1])
    BY <1>1
  <2>2. data[k] = Trail <=> k > 1 /\ data[k - 1] = Lead
    BY <2>1 DEF LegalText
  <2> QED
    BY <2>1, <2>2
<1>4. fn => s = <<>> \/ s[Len(s)] # Lead
  BY <1>2 DEF LegalText
<1> QED
  BY <1>3, <1>4 DEF LegalText, s

LEMMA ControlFits ==
    ASSUME NEW h \in Seq(Frames), NEW f \in Frames, ~IsData(f), NEW g, g = Append(h, f)
    PROVE  /\ WellFormed(f) /\ f.n <= MaxFrame => Fits(h, f)
           /\ MessagesOf(g) = MessagesOf(h) /\ Opens(g) = Opens(h)
<1>1. WellFormed(f) /\ f.n <= MaxFrame => Fits(h, f)
  <2>1. f.n <= MaxFrame => ~(f.n > MaxFrame)
    BY LimitsAssumption DEF Frames
  <2> QED
    BY <2>1 DEF Fits, Breaks, Exceeds, Garbles
<1> QED
  BY <1>1, MessagesThen, OpensThen

-----------------------------------------------------------------------------

FrameOf(m, key, i) ==
    AsFrame(IF i = 1 THEN m.op ELSE "continue", Piece(m.data, i), key, i = NumFrames(m.data))

FramesOf(m, key) == [i \in 1..NumFrames(m.data) |-> FrameOf(m, key, i)]

\* f is frame n + 1 of the N frames of message m.
IsPiece(m, key, N, n, f) ==
    /\ f \in Wire /\ f \in Frames /\ f.op = (IF n = 0 THEN m.op ELSE "continue")
    /\ f.values = Piece(m.data, n + 1) /\ f.n = Len(f.values)
    /\ (f.fin <=> n + 1 = N) /\ f.fin \in BOOLEAN
    /\ IsData(f) /\ WellFormed(f) /\ f.n <= MaxFrame /\ f.n \in Nat
    /\ RawBytes(f) = FrameBytes(f.op, f.values, key, f.fin)

LEMMA MessageIs ==
    ASSUME NEW m \in Messages
    PROVE  /\ m.op \in {"text", "binary"} /\ m.data \in Seq(Nat) /\ Len(m.data) <= MaxMessage
           /\ m.op = "text" => LegalText(m.data, TRUE)
           /\ m = [op |-> m.op, data |-> m.data]
           /\ m \in Msgs
<1>1. /\ m \in [op : {"text", "binary"}, data : Seq(Nat)] /\ Len(m.data) <= MaxMessage
      /\ m.op = "text" => LegalText(m.data, TRUE)
  BY MessagesAssumption
<1>2. m = [op |-> m.op, data |-> m.data] /\ m.op \in {"text", "binary"} /\ m.data \in Seq(Nat)
  BY <1>1
<1>3. {"text", "binary"} \subseteq Opcodes
  BY DEF Opcodes
<1>4. m \in Msgs
  BY <1>2, <1>3 DEF Msgs
<1> QED
  BY <1>1, <1>2, <1>4

LEMMA FrameOfIs ==
    ASSUME NEW m \in Messages, NEW key \in {0, 1}, NEW N, N = NumFrames(m.data),
           NEW n \in 0..(N - 1), NEW f, f = FrameOf(m, key, n + 1)
    PROVE  IsPiece(m, key, N, n, f)
<1>1. m.op \in {"text", "binary"} /\ m.data \in Seq(Nat)
  BY MessageIs
<1> DEFINE op == IF n + 1 = 1 THEN m.op ELSE "continue"
           values == Piece(m.data, n + 1)
           fn == n + 1 = N
<1>2. values \in Seq(Nat) /\ Len(values) <= FrameSize
  BY <1>1, PieceIs
<1>3. N \in Nat /\ n \in Nat
  BY <1>1, CutIs
<1>4. op = (IF n = 0 THEN m.op ELSE "continue")
  BY <1>3
<1>5. op \in Opcodes /\ op \notin Control /\ ~isOpCodeReserved(op) /\ fn \in BOOLEAN
  BY <1>1, <1>4 DEF Opcodes, Control, isOpCodeReserved
<1>6. f = AsFrame(op, values, key, fn)
  BY DEF FrameOf
<1> HIDE DEF op, values, fn
<1>7. /\ f \in Wire /\ RawBytes(f) = FrameBytes(op, values, key, fn)
      /\ f.op = op /\ f.values = values /\ f.fin = fn /\ f.n = Len(values)
      /\ WellFormed(f) <=> /\ ~isOpCodeReserved(op)
                           /\ op \in Control => fn /\ Len(values) <= Len7
                           /\ Len(values) <= Len63
  BY <1>2, <1>5, <1>6, WrittenIsRaw
<1>8. Len(values) <= MaxFrame /\ Len(values) <= Len63 /\ Len(values) \in Nat
  BY <1>2, LimitsAssumption
<1>9. WellFormed(f) /\ IsData(f) /\ f.n <= MaxFrame /\ f.n \in Nat
  BY <1>5, <1>7, <1>8 DEF IsData
<1>10. f \in Frames
  BY <1>7, WireFrames
<1>11. f.fin <=> n + 1 = N
  BY <1>7 DEF fn
<1>12. f.op = (IF n = 0 THEN m.op ELSE "continue")
  BY <1>4, <1>7
<1>13. f.values = Piece(m.data, n + 1)
  BY <1>7 DEF values
<1> QED
  BY <1>1, <1>5, <1>7, <1>9, <1>10, <1>11, <1>12, <1>13 DEF IsPiece

\* The bytes that doWriteFrames writes are those of these frames.
LEMMA FramesOfBytes ==
    ASSUME NEW m \in Messages, NEW key \in {0, 1}
    PROVE  /\ FramesOf(m, key) \in Seq(Wire)
           /\ Len(FramesOf(m, key)) = NumFrames(m.data)
           /\ \A i \in 1..NumFrames(m.data) :
                 FramesOf(m, key)[i] = FrameOf(m, key, i) /\ FramesOf(m, key)[i].op # "close"
           /\ BytesOf(FramesOf(m, key))
                 = MessageBytes(m.op, m.data, [i \in 1..NumFrames(m.data) |-> key])
<1> DEFINE N == NumFrames(m.data)
           F == FramesOf(m, key)
<1>1. m.data \in Seq(Nat)
  BY MessagesAssumption
<1>2. N \in Nat
  BY <1>1, CutIs
<1>3. ASSUME NEW i \in 1..N
      PROVE  /\ FrameOf(m, key, i) \in Wire /\ FrameOf(m, key, i).op # "close"
             /\ RawBytes(FrameOf(m, key, i))
                  = FrameBytes(IF i = 1 THEN m.op ELSE "continue", Piece(m.data, i), key, i = N)
  <2> DEFINE f == FrameOf(m, key, i)
  <2>1. i - 1 \in 0..(N - 1) /\ (i - 1) + 1 = i
    BY <1>2
  <2>2. ASSUME NEW n, n = i - 1
        PROVE  /\ f \in Wire /\ f.op = (IF n = 0 THEN m.op ELSE "continue")
               /\ f.values = Piece(m.data, i)
               /\ (f.fin <=> i = N) /\ f.fin \in BOOLEAN
               /\ IsData(f)
               /\ RawBytes(f) = FrameBytes(f.op, f.values, key, f.fin)
    <3>1. n \in 0..(N - 1) /\ n + 1 = i
      BY <2>1, <2>2
    <3>2. f = FrameOf(m, key, n + 1)
      BY <3>1
    <3> HIDE DEF f
    <3>3. IsPiece(m, key, N, n, f)
      BY <3>1, <3>2, FrameOfIs
    <3> HIDE DEF N
    <3>4. f.values = Piece(m.data, i) /\ (f.fin <=> i = N)
      BY <3>1, <3>3 DEF IsPiece
    <3> QED
      BY <3>3, <3>4 DEF IsPiece
  <2> HIDE DEF f
  <2>3. f.op = (IF i = 1 THEN m.op ELSE "continue")
    <3>1. i - 1 = 0 <=> i = 1
      BY <1>2
    <3> QED
      BY <2>2, <3>1
  <2>4. f.op # "close"
    BY <2>2 DEF IsData, Control
  <2>5. f.fin = (i = N)
    BY <2>2
  <2>6. f \in Wire /\ f.values = Piece(m.data, i)
        /\ RawBytes(f) = FrameBytes(f.op, f.values, key, f.fin)
    BY <2>2
  <2> QED
    BY <2>3, <2>4, <2>5, <2>6 DEF f
<1>4. F \in Seq(Wire) /\ Len(F) = N /\ \A i \in 1..N : F[i] = FrameOf(m, key, i)
  <2> HIDE DEF N
  <2>1. F = [i \in 1..N |-> FrameOf(m, key, i)]
    BY DEF FramesOf, N
  <2> QED
    BY <1>2, <1>3, <2>1
<1> DEFINE piece(i) == SubSeq(m.data, (i - 1) * FrameSize + 1,
                              IF i * FrameSize < Len(m.data) THEN i * FrameSize ELSE Len(m.data))
           whole == [i \in 1..N |->
                       FrameBytes(IF i = 1 THEN m.op ELSE "continue", piece(i),
                                  [j \in 1..N |-> key][i], i = N)]
<1>5. MessageBytes(m.op, m.data, [i \in 1..N |-> key]) = FlattenSeq(whole)
  BY DEF MessageBytes
<1>6. Raws(F) = whole
  <2>1. \A i \in 1..N : piece(i) = Piece(m.data, i) /\ [j \in 1..N |-> key][i] = key
    BY DEF Piece, Upto
  <2> HIDE DEF piece
  <2>2. Raws(F) = [i \in 1..N |-> RawBytes(F[i])]
    BY <1>4 DEF Raws
  <2> HIDE DEF F, N
  <2>3. \A i \in 1..N : RawBytes(F[i]) = FrameBytes(IF i = 1 THEN m.op ELSE "continue", piece(i),
                                  [j \in 1..N |-> key][i], i = N)
    BY <1>3, <1>4, <2>1
  <2> QED
    BY <2>2, <2>3
<1> QED
  BY <1>3, <1>4, <1>5, <1>6 DEF BytesOf

\* After the first n frames of m, that follow the frames of g.
SentSoFar(g, m, N, n, h) ==
    /\ AllRead(h)
    /\ MessagesOf(h) = IF n < N THEN MessagesOf(g) ELSE Append(MessagesOf(g), m)
    /\ Opens(h) <=> 0 < n /\ n < N
    /\ n > 0 => Op(h) = m.op /\ Data(h) = SubSeq(m.data, 1, Upto(n, Len(m.data)))

LEMMA SendStep ==
    ASSUME NEW g \in Seq(Frames), NEW m \in Messages, NEW key \in {0, 1},
           NEW N, N = NumFrames(m.data), NEW n \in 0..(N - 1),
           NEW h \in Seq(Frames), SentSoFar(g, m, N, n, h),
           NEW f, IsPiece(m, key, N, n, f),
           NEW next, next = Append(h, f)
    PROVE  SentSoFar(g, m, N, n + 1, next)
<1> DEFINE data == m.data
           L == Len(data)
           op == NextOp(h, f)
           whole == NextData(h, f)
<1>1. /\ m.op \in {"text", "binary"} /\ data \in Seq(Nat) /\ L <= MaxMessage /\ L \in Nat
      /\ m.op = "text" => LegalText(data, TRUE)
      /\ m = [op |-> m.op, data |-> data]
  <2>1. /\ m.op \in {"text", "binary"} /\ m.data \in Seq(Nat) /\ Len(m.data) <= MaxMessage
        /\ m.op = "text" => LegalText(m.data, TRUE)
        /\ m = [op |-> m.op, data |-> m.data]
    BY MessageIs
  <2>2. L \in Nat
    BY <2>1
  <2> QED
    BY <2>1, <2>2
<1>2. N \in Nat /\ n \in Nat /\ n < N
  BY <1>1, CutIs
<1>3. /\ f.values \in Seq(Nat)
      /\ Len(f.values) + Upto(n, L) <= L
      /\ SubSeq(data, 1, Upto(n + 1, L)) = Join(SubSeq(data, 1, Upto(n, L)), f.values)
      /\ Upto(n, L) \in 0..L /\ Upto(n + 1, L) \in 0..L
      /\ n + 1 = N => Upto(n + 1, L) = L
      /\ Upto(0, L) = 0
  <2> DEFINE values == Piece(data, n + 1)
  <2>1. f.values = values
    BY DEF IsPiece
  <2>2. N = NumFrames(data) /\ L = Len(data) /\ data \in Seq(Nat)
    BY <1>1
  <2> HIDE DEF data, L
  <2>3. /\ values \in Seq(Nat) /\ Len(values) <= FrameSize
        /\ Len(values) + Upto(n, L) <= L
        /\ SubSeq(data, 1, Upto(n + 1, L)) = Join(SubSeq(data, 1, Upto(n, L)), values)
        /\ Upto(n, L) \in 0..L /\ Upto(n + 1, L) \in 0..L
        /\ n + 1 = N => Upto(n + 1, L) = L
        /\ Upto(0, L) = 0
    BY <2>2, PieceIs
  <2> QED
    BY <2>1, <2>3
<1>4. /\ f \in Frames /\ f.op = (IF n = 0 THEN m.op ELSE "continue")
      /\ (f.fin <=> n + 1 = N) /\ IsData(f) /\ WellFormed(f) /\ f.n <= MaxFrame /\ f.n \in Nat
  BY DEF IsPiece
<1>5. m.op # "continue"
  BY <1>1
<1>6. ~Breaks(h, f)
  <2>1. (f.op = "continue") <=> n > 0
    BY <1>2, <1>4, <1>5
  <2>2. Opens(h) <=> n > 0
    BY <1>2 DEF SentSoFar
  <2>3. Opens(h) \in BOOLEAN
    BY OpensBool
  <2> QED
    BY <1>4, <2>1, <2>2, <2>3 DEF Breaks
<1>7. op = m.op /\ Prior(h, f) = SubSeq(data, 1, Upto(n, L))
  <2>1. CASE n = 0
    <3>1. op = m.op /\ Prior(h, f) = <<>>
      BY <1>4, <1>5, <2>1 DEF NextOp, Prior
    <3>2. SubSeq(data, 1, Upto(n, L)) = <<>>
      BY <1>1, <1>3, <2>1, FrontNone
    <3> QED
      BY <3>1, <3>2
  <2>2. CASE n > 0
    BY <1>2, <1>4, <2>2 DEF NextOp, Prior, SentSoFar
  <2> QED
    BY <1>2, <2>1, <2>2
<1>8. whole = SubSeq(data, 1, Upto(n + 1, L))
  BY <1>3, <1>7 DEF NextData
<1>9. ~Exceeds(h, f)
  <2> DEFINE prior == Prior(h, f)
  <2>1. prior \in Seq(Nat) /\ Len(prior) = Upto(n, L)
    BY <1>1, <1>3, <1>7, FrontIs
  <2> HIDE DEF prior, op, L
  <2>2. Characters(prior) \in Nat /\ Characters(prior) <= Len(prior)
    BY <2>1, CharactersAre
  <2>3. NextSize(h, f) <= L
    <3>1. NextSize(h, f) = Len(f.values) + IF op = "text" THEN Characters(prior) ELSE Len(prior)
      BY DEF NextSize, prior, op
    <3>2. Len(f.values) \in Nat /\ Upto(n, L) \in Nat /\ L \in Nat
      BY <1>1, <1>3
    <3> QED
      BY <1>3, <2>1, <2>2, <3>1, <3>2
  <2>4. NextSize(h, f) \in Int /\ L \in Nat /\ MaxMessage \in Nat /\ MaxFrame \in Nat
    <3>1. Len(f.values) \in Nat
      BY <1>3
    <3> QED
      <4>1. NextSize(h, f) = Len(f.values) + IF op = "text" THEN Characters(prior) ELSE Len(prior)
        BY DEF NextSize, prior, op
      <4>2. Len(prior) \in Nat /\ MaxMessage \in Nat /\ MaxFrame \in Nat /\ L \in Nat
        BY <1>1, <2>1, MaxMessageAssumption, LimitsAssumption
      <4> QED
        BY <2>2, <3>1, <4>1, <4>2
  <2>5. ~(NextSize(h, f) > MaxMessage)
    BY <1>1, <2>3, <2>4
  <2>6. ~(f.n > MaxFrame)
    BY <1>4, <2>4
  <2> QED
    BY <2>5, <2>6 DEF Exceeds
<1>10. ~Garbles(h, f)
  <2>1. ASSUME m.op = "text"
        PROVE  LegalText(whole, f.fin)
    <3>1. f.fin \in BOOLEAN
      BY <1>4 DEF Frames
    <3>2. f.fin => Upto(n + 1, L) = L
      BY <1>3, <1>4
    <3>3. LegalText(data, TRUE)
      BY <1>1, <2>1
    <3> DEFINE b == Upto(n + 1, L)
    <3>4. b \in 0..Len(data) /\ (f.fin => b = Len(data))
      BY <1>3, <3>2
    <3> HIDE DEF b, data, L
    <3>5. LegalText(SubSeq(data, 1, b), f.fin)
      BY <1>1, <3>1, <3>3, <3>4, TextPrefix
    <3> QED
      BY <1>8, <3>5 DEF b
  <2> QED
    BY <1>7, <2>1 DEF Garbles
<1>11. Fits(h, f)
  BY <1>6, <1>9, <1>10 DEF Fits
<1>12. AllRead(next)
  <2>1. f.op # "close"
    BY <1>4 DEF IsData, Control
  <2>2. AllRead(h)
    BY DEF SentSoFar
  <2> QED
    BY <1>4, <1>11, <2>1, <2>2, AllReadThen
<1>13. Op(next) = m.op /\ Data(next) = SubSeq(data, 1, Upto(n + 1, L))
  BY <1>4, <1>7, <1>8, FrameThen
<1>14. Opens(next) <=> n + 1 < N
  <2>1. Opens(next) = ~f.fin
    BY <1>4, OpensThen
  <2>2. f.fin <=> ~(n + 1 < N)
    BY <1>2, <1>4
  <2>3. Opens(next) <=> ~f.fin
    BY <2>1, OpensBool, Zenon
  <2> QED
    BY <2>2, <2>3, Zenon
<1>15. MessagesOf(next) = IF f.fin THEN Append(MessagesOf(h), [op |-> op, data |-> whole])
                          ELSE MessagesOf(h)
  BY <1>4, <1>11, MessagesThen DEF SentSoFar
<1>16. MessagesOf(h) = MessagesOf(g)
  BY <1>2 DEF SentSoFar
<1>17. MessagesOf(next) = IF n + 1 < N THEN MessagesOf(g) ELSE Append(MessagesOf(g), m)
  <2>1. CASE n + 1 < N
    BY <1>2, <1>4, <1>15, <1>16, <2>1
  <2>2. CASE n + 1 = N
    <3>1. whole = data
      BY <1>1, <1>3, <1>8, <2>2, FrontNone
    <3>2. [op |-> op, data |-> whole] = m
      BY <1>1, <1>7, <3>1
    <3> QED
      BY <1>2, <1>4, <1>15, <1>16, <2>2, <3>2
  <2> QED
    BY <1>2, <2>1, <2>2
<1> QED
  BY <1>2, <1>12, <1>13, <1>14, <1>17 DEF SentSoFar

\* The frames into which doWriteFrames() cuts a message amount, after any frames that
\* leave no message open, to exactly that message, whatever its length and kind.
THEOREM SendThen ==
    ASSUME NEW g \in Seq(Frames), AllRead(g), ~Opens(g), NEW m \in Messages, NEW key \in {0, 1},
           NEW F, F = FramesOf(m, key)
    PROVE  /\ AllRead(Join(g, F)) /\ ~Opens(Join(g, F))
           /\ MessagesOf(Join(g, F)) = Append(MessagesOf(g), m)
<1> DEFINE N == NumFrames(m.data)
           J(n) == Join(g, SubSeq(F, 1, n))
           T == {n \in Nat : n <= N => SentSoFar(g, m, N, n, J(n))}
<1>1. /\ F \in Seq(Wire) /\ F \in Seq(Frames) /\ Len(F) = N
      /\ \A i \in 1..N : F[i] = FrameOf(m, key, i)
  BY FramesOfBytes, WireFrames
<1>2. N \in Nat /\ N >= 1
  BY MessageIs, CutIs
<1>3. 0 \in T
  <2>1. J(0) = g
    BY <1>1, FrontNone, JoinNone
  <2>2. SentSoFar(g, m, N, 0, g)
    BY <1>2 DEF SentSoFar
  <2> QED
    BY <2>1, <2>2
<1>4. ASSUME NEW n \in Nat, n \in T
      PROVE  n + 1 \in T
  <2> SUFFICES ASSUME n + 1 <= N PROVE SentSoFar(g, m, N, n + 1, J(n + 1))
    BY <1>4
  <2>1. SentSoFar(g, m, N, n, J(n))
    BY <1>2, <1>4
  <2> DEFINE f == F[n + 1]
             u == SubSeq(F, 1, n)
             h == J(n)
             next == J(n + 1)
  <2>2. SubSeq(F, 1, n + 1) = Append(u, f) /\ u \in Seq(Frames) /\ f \in Frames
    BY <1>1, FrontGrows
  <2>3. h = Join(g, u) /\ next = Join(g, Append(u, f))
    BY <2>2
  <2>4. f = FrameOf(m, key, n + 1) /\ n \in 0..(N - 1)
    BY <1>1, <1>2
  <2>5. SentSoFar(g, m, N, n, h)
    BY <2>1
  <2> HIDE DEF f, u, h, next, J, T
  <2>6. next = Append(h, f) /\ h \in Seq(Frames)
    <3>1. Join(g, Append(u, f)) = Append(Join(g, u), f)
      BY <2>2, JoinLast
    <3>2. Join(g, u) \in Seq(Frames)
      BY <2>2, JoinAssoc
    <3> QED
      BY <2>3, <3>1, <3>2
  <2>7. IsPiece(m, key, N, n, f)
    BY <2>4, FrameOfIs
  <2>8. SentSoFar(g, m, N, n + 1, next)
    <3>1. ASSUME NEW M, M = N
          PROVE  SentSoFar(g, m, M, n + 1, next)
      <4>1. M = NumFrames(m.data) /\ n \in 0..(M - 1) /\ SentSoFar(g, m, M, n, h)
            /\ IsPiece(m, key, M, n, f)
        BY <2>4, <2>5, <2>7, <3>1
      <4> HIDE DEF N
      <4> QED
        BY <2>6, <4>1, SendStep
    <3> QED
      BY <3>1
  <2> QED
    BY <2>8 DEF next
<1> HIDE DEF T
<1>5. Nat \subseteq T
  BY <1>3, <1>4, Induction
<1>6. N \in T
  BY <1>2, <1>5
<1>7. SentSoFar(g, m, N, N, J(N))
  BY <1>2, <1>6 DEF T
<1>8. J(N) = Join(g, F)
  BY <1>1, FrontNone
<1> HIDE DEF J, N
<1>9. SentSoFar(g, m, N, N, Join(g, F))
  BY <1>7, <1>8
<1> QED
  BY <1>2, <1>9 DEF SentSoFar

-----------------------------------------------------------------------------
(* The reader of an end: what has been read of the bytes at the front of   *)
(* the stream, and what has arrived since.                                 *)

Reading(r, front) ==
    \E a, b \in Seq(Bytes) : front = Join(a, b) /\ r = More(readFrame(NewReader(a)), b)

LEMMA FrontLengths ==
    ASSUME NEW F \in Seq(Wire), NEW front \in Seq(Bytes), NEW back \in Seq(Bytes),
           Join(front, back) = BytesOf(F)
    PROVE  /\ LengthsAre(front, "header")
           /\ F = <<>> => front = <<>> /\ back = <<>>
<1>1. CASE F = <<>>
  <2>1. Join(front, back) = <<>>
    BY <1>1, BytesNone
  <2>2. Len(front) + Len(back) = 0
    BY <2>1, JoinLen
  <2>3. Len(front) = 0 /\ Len(back) = 0
    BY <2>2
  <2>4. front = <<>> /\ back = <<>>
    BY <2>3
  <2> QED
    BY <2>4 DEF LengthsAre
<1>2. CASE F # <<>>
  <2> DEFINE f == F[1]
             rest == BytesOf(Tail(F))
  <2>1. BytesOf(F) = Join(RawBytes(f), rest) /\ f \in Wire /\ Tail(F) \in Seq(Wire)
    BY <1>2, BytesFirst
  <2>2. rest \in Seq(Bytes)
    BY <2>1, RawsType
  <2> HIDE DEF f, rest
  <2>3. LengthsAre(Join(RawBytes(f), rest), "header")
    BY <2>1, <2>2, RawLengths
  <2>4. LengthsAre(front \o back, "header")
    BY <2>1, <2>3 DEF Join
  <2>5. LengthsAre(front, "header")
    BY <2>4, LengthsOfFront
  <2> QED
    BY <1>2, <2>5
<1> QED
  BY <1>1, <1>2

LEMMA ReaderOf ==
    ASSUME NEW F \in Seq(Wire), NEW a \in Seq(Bytes), NEW b \in Seq(Bytes), NEW back \in Seq(Bytes),
           Join(Join(a, b), back) = BytesOf(F), NEW s, s = readFrame(NewReader(a))
    PROVE  /\ LengthsAre(a, "header") /\ LengthsAre(a \o b, "header")
           /\ Known(s) /\ IsReader(s) /\ s.in \in Seq(Bytes)
<1>1. Join(Join(a, b), back) = Join(a, Join(b, back)) /\ Join(a, b) \in Seq(Bytes)
      /\ Join(b, back) \in Seq(Bytes)
  BY JoinAssoc
<1>2. LengthsAre(a, "header")
  <2>1. Join(a, Join(b, back)) = BytesOf(F)
    BY <1>1
  <2> QED
    BY <1>1, <2>1, FrontLengths
<1>3. LengthsAre(Join(a, b), "header")
  BY <1>1, FrontLengths
<1>4. LengthsAre(a \o b, "header")
  BY <1>3 DEF Join
<1>5. Ready(Bytes, s, b)
  <2>1. ASSUME NEW S, S = Bytes
        PROVE  Ready(S, s, b)
    <3>1. a \in Seq(S) /\ b \in Seq(S)
      BY <2>1
    <3> QED
      BY <1>2, <1>4, <3>1, ReadyFrame
  <2> QED
    BY <2>1
<1> QED
  BY <1>2, <1>4, <1>5 DEF Ready, Known, Measured

LEMMA MoreNone ==
    ASSUME NEW r, IsReader(r), r.in \in Seq(Bytes)
    PROVE  More(r, <<>>) = r
<1> DEFINE in == r.in  st == r.st  fn == r.fin  op == r.op  masked == r.masked  key == r.key
           plen == r.plen  payload == r.payload  valid == r.valid  code == r.code
<1>1. r = Rd(in, st, fn, op, masked, key, plen, payload, valid, code) /\ in \in Seq(Bytes)
  BY DEF IsReader
<1> HIDE DEF in, st, fn, op, masked, key, plen, payload, valid, code
<1>2. ASSUME NEW none, none = <<>>
      PROVE  More(r, none) = Rd(in \o none, st, fn, op, masked, key, plen, payload, valid, code)
  BY <1>1, MoreIs
<1>3. in \o <<>> = in
  BY <1>1
<1> QED
  BY <1>1, <1>2, <1>3

\* A call that goes on reads as if all that has arrived had been there when it began.
LEMMA ReadingOn ==
    ASSUME NEW F \in Seq(Wire), NEW front \in Seq(Bytes), NEW back \in Seq(Bytes),
           Join(front, back) = BytesOf(F), NEW r, Reading(r, front)
    PROVE  /\ readFrame(r) = readFrame(NewReader(front))
           /\ Reading(readFrame(r), front)
<1>1. PICK a \in Seq(Bytes), b \in Seq(Bytes) :
          front = Join(a, b) /\ r = More(readFrame(NewReader(a)), b)
  BY DEF Reading
<1>2. LengthsAre(a, "header") /\ LengthsAre(a \o b, "header")
  BY <1>1, ReaderOf
<1>3. readFrame(More(readFrame(NewReader(a)), b)) = readFrame(NewReader(a \o b))
  <2>1. ASSUME NEW S, S = Bytes
        PROVE  readFrame(More(readFrame(NewReader(a)), b)) = readFrame(NewReader(a \o b))
    <3>1. a \in Seq(S) /\ b \in Seq(S)
      BY <2>1
    <3> QED
      BY <1>2, <3>1, TwoSegments
  <2> QED
    BY <2>1
<1>4. readFrame(r) = readFrame(NewReader(front))
  BY <1>1, <1>3 DEF Join
<1>5. Join(front, <<>>) = front /\ <<>> \in Seq(Bytes)
  BY JoinNone
<1> DEFINE s == readFrame(NewReader(front))
<1>6. IsReader(s) /\ s.in \in Seq(Bytes)
  BY <1>5, ReaderOf
<1>7. More(s, <<>>) = s
  <2> HIDE DEF s
  <2> QED
    BY <1>6, MoreNone
<1> QED
  BY <1>4, <1>5, <1>7 DEF Reading

LEMMA ReadingMore ==
    ASSUME NEW F \in Seq(Wire), NEW front \in Seq(Bytes), NEW back \in Seq(Bytes),
           Join(front, back) = BytesOf(F), NEW r, Reading(r, front), NEW byte \in Bytes
    PROVE  Reading([r EXCEPT !.in = Append(@, byte)], Append(front, byte))
<1>1. PICK a \in Seq(Bytes), b \in Seq(Bytes) :
          front = Join(a, b) /\ r = More(readFrame(NewReader(a)), b)
  BY DEF Reading
<1> DEFINE s == readFrame(NewReader(a))
           in == s.in  st == s.st  fn == s.fin  op == s.op  masked == s.masked  key == s.key
           plen == s.plen  payload == s.payload  valid == s.valid  code == s.code
           more == Append(b, byte)
<1>2. s = Rd(in, st, fn, op, masked, key, plen, payload, valid, code) /\ in \in Seq(Bytes)
  BY <1>1, ReaderOf DEF IsReader
<1>3. r = More(s, b)
  BY <1>1
<1>4. more \in Seq(Bytes) /\ Join(a, more) = Append(front, byte)
  <2>1. Join(a, Append(b, byte)) = Append(Join(a, b), byte)
    BY JoinLast
  <2> QED
    BY <1>1, <2>1
<1> HIDE DEF s, in, st, fn, op, masked, key, plen, payload, valid, code
<1>5. r = Rd(in \o b, st, fn, op, masked, key, plen, payload, valid, code)
  BY <1>2, <1>3, MoreIs
<1>6. r.in = in \o b
  <2> DEFINE x == in \o b
  <2>1. r = Rd(x, st, fn, op, masked, key, plen, payload, valid, code)
    BY <1>5
  <2> HIDE DEF x
  <2>2. r.in = x
    BY <2>1, RdFields
  <2> QED
    BY <2>2 DEF x
<1>7. Append(r.in, byte) = in \o more
  <2>1. Append(Join(in, b), byte) = Join(in, Append(b, byte))
    BY <1>2, JoinLast
  <2> QED
    BY <1>6, <2>1 DEF Join
<1>8. [r EXCEPT !.in = in \o more] = Rd(in \o more, st, fn, op, masked, key, plen, payload, valid, code)
  <2> DEFINE x == in \o b
             y == in \o more
  <2>1. r = Rd(x, st, fn, op, masked, key, plen, payload, valid, code)
    BY <1>5
  <2> HIDE DEF x, y
  <2>2. [r EXCEPT !.in = y] = Rd(y, st, fn, op, masked, key, plen, payload, valid, code)
    BY <2>1, InSet
  <2> QED
    BY <2>2 DEF y
<1>9. More(s, more) = Rd(in \o more, st, fn, op, masked, key, plen, payload, valid, code)
  <2> HIDE DEF more
  <2> QED
    BY <1>2, MoreIs
<1>10. [r EXCEPT !.in = Append(@, byte)] = More(s, more)
  <2>1. [r EXCEPT !.in = Append(@, byte)] = [r EXCEPT !.in = Append(r.in, byte)]
    OBVIOUS
  <2> HIDE DEF more
  <2> QED
    BY <1>7, <1>8, <1>9, <2>1
<1> QED
  BY <1>4, <1>10 DEF Reading, s

LEMMA ReadingNew ==
    ASSUME NEW x \in Seq(Bytes)
    PROVE  Reading(NewReader(x), x) /\ readFrame(NewReader(<<>>)) = NewReader(<<>>)
<1> DEFINE none == NewReader(<<>>)
<1>1. none = Rd(<<>>, "header", Yes, "reservedB", No, 0, 0, <<>>, No, CloseCodeNormal)
  BY NewReaderIs
<1> HIDE DEF none
<1>2. none.in = <<>> /\ none.st = "header"
  BY <1>1, RdFields
<1>3. ~CanRead(none)
  BY <1>2 DEF CanRead, Needed
<1>4. readFrame(none) = none
  BY <1>3, StuckField, ReadFrameIs
<1>5. <<>> \o x = x
  OBVIOUS
<1>6. More(none, x) = NewReader(x)
  <2> DEFINE e == <<>>  st == "header"  fn == Yes  op == "reservedB"  masked == No  zero == 0
             valid == No  code == CloseCodeNormal
  <2>1. none = Rd(e, st, fn, op, masked, zero, zero, e, valid, code)
    BY <1>1
  <2>2. NewReader(x) = Rd(x, st, fn, op, masked, zero, zero, e, valid, code)
    BY NewReaderIs
  <2>3. e \o x = x
    BY <1>5
  <2> HIDE DEF e, st, fn, op, masked, zero, valid, code
  <2>4. More(none, x) = Rd(e \o x, st, fn, op, masked, zero, zero, e, valid, code)
    BY <2>1, MoreIs
  <2> QED
    BY <2>2, <2>3, <2>4
<1>7. Join(<<>>, x) = x /\ <<>> \in Seq(Bytes)
  BY JoinNone
<1>8. x = Join(<<>>, x) /\ NewReader(x) = More(readFrame(NewReader(<<>>)), x)
  BY <1>4, <1>6, <1>7 DEF none
<1> QED
  BY <1>4, <1>7, <1>8 DEF Reading, none

-----------------------------------------------------------------------------
(***************************************************************************)
(* The frames G that an end has written so far, and what its peer may rely *)
(* on about them: k is the kind of connection, st the state of the writing *)
(* end, s the messages it sent, cs and cc whether it closed and with which *)
(* code, rw the frames of a raw peer.  lost is what an abort cut off.      *)
(***************************************************************************)
CloseFrame(f, code) ==
    \E reason \in Seq(Nat) :
        LegalText(reason, TRUE) /\ f.values = Join(<<code, LowByte>>, reason)

ClosesAre(G, cs, cc) ==
    \A i \in 1..Len(G) : G[i].op = "close" => cs /\ CloseFrame(G[i], cc)

PromisedBy(k, st, s, cs, cc, rw, G, lost) ==
    /\ s = MessagesOf(G)
    /\ st = "Connected" => lost = <<>>
    /\ k = "qt" /\ st = "Connected" => AllRead(G) /\ ~Opens(G)
    /\ k = "qt" => ClosesAre(G, cs, cc)
    /\ k = "raw" => G = rw

\* What an end has made of the frames H, with the bytes at the front of what
\* follows them already taken from TCP.
HeldBy(rd, proc, rc, H, front) ==
    /\ AllRead(H) /\ Decoded(H)
    /\ proc = ProcessorOf(H)
    /\ rc = MessagesOf(H)
    /\ Reading(rd, front)

Underway(front, nt, lost, F) == Join(front, Join(nt, lost)) = BytesOf(F)

FlowOf(k, st, s, cs, cc, rw, rd, proc, rc, nt) ==
    \E H \in Seq(Wire), F \in Seq(Wire), front \in Seq(Bytes), lost \in Seq(Bytes) :
        /\ Underway(front, nt, lost, F)
        /\ HeldBy(rd, proc, rc, H, front)
        /\ PromisedBy(k, st, s, cs, cc, rw, Join(H, F), lost)

LEMMA PromiseKept ==
    ASSUME NEW k, NEW st, NEW s, NEW cs, NEW cc, NEW rw, NEW G, NEW lost \in Seq(Bytes),
           PromisedBy(k, st, s, cs, cc, rw, G, lost),
           NEW st2, st2 = "Connected" => st = "Connected",
           NEW cs2, NEW cc2, cs => cs2 /\ cc2 = cc,
           NEW w \in Seq(Bytes), st2 = "Connected" => w = <<>>
    PROVE  PromisedBy(k, st2, s, cs2, cc2, rw, G, Join(w, lost))
<1>1. st2 = "Connected" => Join(w, lost) = <<>>
  <2>1. Join(<<>>, lost) = lost
    BY JoinNone
  <2> QED
    BY <2>1 DEF PromisedBy
<1>2. k = "qt" => ClosesAre(G, cs2, cc2)
  BY DEF PromisedBy, ClosesAre
<1> QED
  BY <1>1, <1>2 DEF PromisedBy

LEMMA FlowKept ==
    ASSUME NEW k, NEW st, NEW s, NEW cs, NEW cc, NEW rw, NEW rd, NEW proc, NEW rc,
           NEW nt \in Seq(Bytes), NEW w \in Seq(Bytes), NEW old, old = Join(nt, w),
           FlowOf(k, st, s, cs, cc, rw, rd, proc, rc, old),
           NEW st2, st2 = "Connected" => st = "Connected",
           NEW cs2, NEW cc2, cs => cs2 /\ cc2 = cc,
           st2 = "Connected" => w = <<>>
    PROVE  FlowOf(k, st2, s, cs2, cc2, rw, rd, proc, rc, nt)
<1>1. PICK H \in Seq(Wire), F \in Seq(Wire), front \in Seq(Bytes), lost \in Seq(Bytes) :
          /\ Underway(front, old, lost, F)
          /\ HeldBy(rd, proc, rc, H, front)
          /\ PromisedBy(k, st, s, cs, cc, rw, Join(H, F), lost)
  BY DEF FlowOf
<1> DEFINE more == Join(w, lost)
           G == Join(H, F)
<1>2. more \in Seq(Bytes) /\ Join(old, lost) = Join(nt, more)
  BY JoinAssoc
<1>3. Underway(front, nt, more, F)
  BY <1>1, <1>2 DEF Underway
<1>4. PromisedBy(k, st2, s, cs2, cc2, rw, G, more)
  <2>1. PromisedBy(k, st, s, cs, cc, rw, G, lost)
    BY <1>1
  <2> HIDE DEF G
  <2> QED
    BY <2>1, PromiseKept
<1> HIDE DEF more
<1> QED
  BY <1>1, <1>2, <1>3, <1>4 DEF FlowOf

LEMMA FlowGrows ==
    ASSUME NEW k, NEW s, NEW cs, NEW cc, NEW rw, NEW rd, NEW proc, NEW rc,
           NEW nt \in Seq(Bytes), FlowOf(k, "Connected", s, cs, cc, rw, rd, proc, rc, nt),
           NEW st2, NEW s2, NEW cs2, NEW cc2, NEW rw2, NEW fs \in Seq(Wire),
           \A G \in Seq(Wire) : PromisedBy(k, "Connected", s, cs, cc, rw, G, <<>>)
                                  => PromisedBy(k, st2, s2, cs2, cc2, rw2, Join(G, fs), <<>>)
    PROVE  FlowOf(k, st2, s2, cs2, cc2, rw2, rd, proc, rc, Join(nt, BytesOf(fs)))
<1>1. PICK H \in Seq(Wire), F \in Seq(Wire), front \in Seq(Bytes), lost \in Seq(Bytes) :
          /\ Underway(front, nt, lost, F)
          /\ HeldBy(rd, proc, rc, H, front)
          /\ PromisedBy(k, "Connected", s, cs, cc, rw, Join(H, F), lost)
  BY DEF FlowOf
<1> DEFINE bytes == BytesOf(fs)
           G == Join(H, F)
           more == Join(F, fs)
           none == <<>>
<1>2. bytes \in Seq(Bytes)
  BY RawsType
<1>3. more \in Seq(Wire) /\ BytesOf(more) = Join(BytesOf(F), bytes)
  BY BytesJoin
<1>4. lost = none /\ none \in Seq(Bytes)
  BY <1>1, BytesNone DEF PromisedBy
<1>5. G \in Seq(Wire) /\ Join(G, fs) = Join(H, more)
  BY JoinAssoc
<1>6. PromisedBy(k, st2, s2, cs2, cc2, rw2, Join(H, more), none)
  <2>1. PromisedBy(k, "Connected", s, cs, cc, rw, G, <<>>)
    BY <1>1, <1>4
  <2> HIDE DEF G, more
  <2>2. PromisedBy(k, st2, s2, cs2, cc2, rw2, Join(G, fs), <<>>)
    BY <1>5, <2>1
  <2> QED
    BY <1>5, <2>2
<1> HIDE DEF bytes, none
<1>7. Underway(front, Join(nt, bytes), none, more)
  <2>1. Join(nt, none) = nt /\ Join(Join(nt, bytes), none) = Join(nt, bytes)
    BY <1>2, <1>4, JoinNone, JoinAssoc DEF none
  <2>2. Join(front, Join(nt, bytes)) = Join(Join(front, nt), bytes)
    BY <1>2, JoinAssoc
  <2>3. Join(front, nt) = BytesOf(F)
    BY <1>1, <1>4, <2>1 DEF Underway
  <2> HIDE DEF more
  <2> QED
    BY <1>3, <2>1, <2>2, <2>3 DEF Underway
<1> HIDE DEF more
<1>8. FlowOf(k, st2, s2, cs2, cc2, rw2, rd, proc, rc, Join(nt, bytes))
  BY <1>1, <1>3, <1>4, <1>6, <1>7 DEF FlowOf
<1> QED
  BY <1>8 DEF bytes

-----------------------------------------------------------------------------
(* What a write adds to the frames keeps what the peer relies on.          *)

LEMMA ClosesJoin ==
    ASSUME NEW S, NEW G \in Seq(S), NEW t \in Seq(S), NEW cs, NEW cc,
           ClosesAre(G, cs, cc), ClosesAre(t, cs, cc)
    PROVE  ClosesAre(Join(G, t), cs, cc)
<1> DEFINE J == Join(G, t)
<1>1. /\ Len(J) = Len(G) + Len(t) /\ Len(G) \in Nat /\ Len(t) \in Nat
      /\ \A i \in 1..Len(G) : J[i] = G[i]
      /\ \A i \in 1..Len(t) : J[Len(G) + i] = t[i]
  BY JoinIs DEF Join
<1> HIDE DEF J
<1>2. ASSUME NEW i \in 1..Len(J), J[i].op = "close"
      PROVE  cs /\ CloseFrame(J[i], cc)
  <2>1. CASE i <= Len(G)
    BY <1>1, <1>2, <2>1 DEF ClosesAre
  <2>2. CASE i > Len(G)
    <3> DEFINE n == i - Len(G)
    <3>1. n \in 1..Len(t) /\ i = Len(G) + n
      BY <1>1, <2>2
    <3> HIDE DEF n
    <3>2. J[i] = t[n]
      BY <1>1, <3>1
    <3> QED
      BY <1>2, <3>1, <3>2 DEF ClosesAre
  <2>3. i <= Len(G) \/ i > Len(G)
    BY <1>1
  <2> QED
    BY <2>1, <2>2, <2>3
<1> QED
  BY <1>2 DEF ClosesAre, J

LEMMA NoCloses ==
    ASSUME NEW t, \A i \in 1..Len(t) : t[i].op # "close", NEW cs, NEW cc
    PROVE  ClosesAre(t, cs, cc)
BY DEF ClosesAre

LEMMA PromiseMessage ==
    ASSUME NEW s \in Seq(Msgs), NEW cs, NEW cc, NEW rw, NEW G \in Seq(Wire),
           PromisedBy("qt", "Connected", s, cs, cc, rw, G, <<>>),
           NEW m \in Messages, NEW key \in {0, 1}, NEW fs, fs = FramesOf(m, key)
    PROVE  PromisedBy("qt", "Connected", Append(s, m), cs, cc, rw, Join(G, fs), <<>>)
<1>1. G \in Seq(Frames)
  BY WireFrames
<1>2. AllRead(G) /\ ~Opens(G) /\ s = MessagesOf(G)
  BY DEF PromisedBy
<1>3. /\ AllRead(Join(G, fs)) /\ ~Opens(Join(G, fs))
      /\ MessagesOf(Join(G, fs)) = Append(MessagesOf(G), m)
  BY <1>1, <1>2, SendThen
<1>4. fs \in Seq(Wire) /\ \A i \in 1..Len(fs) : fs[i].op # "close"
  BY FramesOfBytes
<1>5. ClosesAre(Join(G, fs), cs, cc)
  <2>1. ClosesAre(G, cs, cc)
    BY DEF PromisedBy
  <2> QED
    BY <1>4, <2>1, NoCloses, ClosesJoin
<1> DEFINE more == Append(s, m)
           H == Join(G, fs)
<1>6. MessagesOf(H) = more
  BY <1>2, <1>3
<1> HIDE DEF more, H
<1>7. PromisedBy("qt", "Connected", more, cs, cc, rw, H, <<>>)
  BY <1>3, <1>5, <1>6 DEF PromisedBy, H
<1> QED
  BY <1>7 DEF more, H

LEMMA PromiseControl ==
    ASSUME NEW s \in Seq(Msgs), NEW cs, NEW cc, NEW rw, NEW G \in Seq(Wire),
           PromisedBy("qt", "Connected", s, cs, cc, rw, G, <<>>),
           NEW f \in Wire, f.op \in {"ping", "pong"}, WellFormed(f), f.n <= MaxFrame
    PROVE  PromisedBy("qt", "Connected", s, cs, cc, rw, Join(G, <<f>>), <<>>)
<1> DEFINE H == Append(G, f)
<1>1. G \in Seq(Frames) /\ f \in Frames
  BY WireFrames
<1>2. ~IsData(f)
  BY DEF IsData, Control
<1>3. Fits(G, f) /\ MessagesOf(H) = MessagesOf(G) /\ Opens(H) = Opens(G)
  <2> HIDE DEF H
  <2>1. H = Append(G, f)
    BY DEF H
  <2> QED
    BY <1>1, <1>2, <2>1, ControlFits
<1>4. AllRead(H)
  <2>1. AllRead(G)
    BY DEF PromisedBy
  <2> QED
    BY <1>1, <1>3, <2>1, AllReadThen
<1>5. H = Join(G, <<f>>) /\ <<f>> \in Seq(Wire)
  BY DEF Join
<1>6. ClosesAre(Join(G, <<f>>), cs, cc)
  <2>1. ClosesAre(G, cs, cc)
    BY DEF PromisedBy
  <2>2. ClosesAre(<<f>>, cs, cc)
    BY DEF ClosesAre
  <2> DEFINE one == <<f>>
  <2> HIDE DEF one
  <2>3. ClosesAre(Join(G, one), cs, cc)
    BY <1>5, <2>1, <2>2, ClosesJoin DEF one
  <2> QED
    BY <2>3 DEF one
<1> HIDE DEF H
<1> QED
  BY <1>3, <1>4, <1>5, <1>6 DEF PromisedBy

\* The close frame, with a last message behind it or none.
LEMMA PromiseClose ==
    ASSUME NEW s \in Seq(Msgs), NEW cs, NEW cc, NEW rw, NEW G \in Seq(Wire),
           PromisedBy("qt", "Connected", s, cs, cc, rw, G, <<>>),
           NEW cc2, NEW f \in Wire, f.op = "close", CloseFrame(f, cc2),
           NEW t \in Seq(Wire), \A i \in 1..Len(t) : t[i].op # "close",
           NEW st2, st2 # "Connected", NEW cs2, cs2
    PROVE  PromisedBy("qt", st2, s, cs2, cc2, rw, Join(G, Join(<<f>>, t)), <<>>)
<1> DEFINE H == Append(G, f)
           J == Join(H, t)
<1>1. G \in Seq(Frames) /\ f \in Frames /\ t \in Seq(Frames) /\ H \in Seq(Frames)
  BY WireFrames
<1>2. ~IsData(f)
  BY DEF IsData, Control
<1>3. H = Join(G, <<f>>) /\ <<f>> \in Seq(Wire) /\ H \in Seq(Wire)
  BY DEF Join
<1>4. J = Join(G, Join(<<f>>, t))
  <2> DEFINE one == <<f>>
  <2>1. one \in Seq(Wire)
    BY <1>3
  <2> HIDE DEF one, H
  <2>2. Join(Join(G, one), t) = Join(G, Join(one, t))
    BY <2>1, JoinAssoc
  <2> QED
    BY <1>3, <2>2 DEF one
<1>5. MessagesOf(H) = MessagesOf(G) /\ ~AllRead(H)
  <2> HIDE DEF H
  <2>1. H = Append(G, f)
    BY DEF H
  <2> QED
    BY <1>1, <1>2, <2>1, ControlFits, AllReadThen
<1> HIDE DEF H
<1>6. MessagesOf(J) = MessagesOf(G)
  BY <1>1, <1>5, MessagesJoin
<1>7. ClosesAre(J, cs2, cc2)
  <2>1. ClosesAre(G, cs2, cc2)
    BY DEF PromisedBy, ClosesAre, AllRead
  <2>2. ClosesAre(<<f>>, cs2, cc2)
    BY DEF ClosesAre
  <2> DEFINE one == <<f>>
  <2> HIDE DEF one
  <2>3. ClosesAre(H, cs2, cc2)
    BY <1>3, <2>1, <2>2, ClosesJoin DEF one
  <2> QED
    BY <1>3, <2>3, NoCloses, ClosesJoin
<1>8. s = MessagesOf(G)
  BY DEF PromisedBy
<1> HIDE DEF J
<1>9. PromisedBy("qt", st2, s, cs2, cc2, rw, J, <<>>)
  BY <1>6, <1>7, <1>8 DEF PromisedBy
<1> QED
  BY <1>4, <1>9

LEMMA PromiseRaw ==
    ASSUME NEW s, NEW cs, NEW cc, NEW rw \in Seq(Wire), NEW G \in Seq(Wire),
           PromisedBy("raw", "Connected", s, cs, cc, rw, G, <<>>),
           NEW f \in Wire, NEW rw2, rw2 = Append(rw, f)
    PROVE  PromisedBy("raw", "Connected", MessagesOf(rw2), cs, cc, rw2, Join(G, <<f>>), <<>>)
<1>1. G = rw
  BY DEF PromisedBy
<1>2. rw2 \in Seq(Wire) /\ rw2 = Join(G, <<f>>)
  BY <1>1 DEF Join
<1> QED
  BY <1>2 DEF PromisedBy

-----------------------------------------------------------------------------
(* What an end makes of the bytes that arrive.                             *)

LEMMA FlowArrives ==
    ASSUME NEW k, NEW st, NEW s, NEW cs, NEW cc, NEW rw, NEW rd, NEW proc, NEW rc,
           NEW nt \in Seq(Bytes), nt # <<>>,
           FlowOf(k, st, s, cs, cc, rw, rd, proc, rc, nt),
           NEW rd2, rd2 = [rd EXCEPT !.in = Append(@, Head(nt))]
    PROVE  FlowOf(k, st, s, cs, cc, rw, rd2, proc, rc, Tail(nt))
<1>1. PICK H \in Seq(Wire), F \in Seq(Wire), front \in Seq(Bytes), lost \in Seq(Bytes) :
          /\ Underway(front, nt, lost, F)
          /\ HeldBy(rd, proc, rc, H, front)
          /\ PromisedBy(k, st, s, cs, cc, rw, Join(H, F), lost)
  BY DEF FlowOf
<1> DEFINE byte == Head(nt)
           rest == Tail(nt)
           more == Append(front, byte)
<1>2. byte \in Bytes /\ rest \in Seq(Bytes)
  <2> HIDE DEF Bytes
  <2> QED
    OBVIOUS
<1>3. Join(<<byte>>, rest) = nt
  <2> HIDE DEF Bytes
  <2> QED
    BY DEF Join
<1> HIDE DEF byte, rest
<1>4. more \in Seq(Bytes) /\ more = Join(front, <<byte>>) /\ <<byte>> \in Seq(Bytes)
  <2> HIDE DEF Bytes
  <2> QED
    BY <1>2 DEF Join
<1>5. Join(front, Join(nt, lost)) = Join(more, Join(rest, lost))
  <2> DEFINE one == <<byte>>
  <2>1. one \in Seq(Bytes) /\ more = Join(front, one) /\ Join(one, rest) = nt
    BY <1>3, <1>4
  <2> HIDE DEF one, more
  <2>2. Join(nt, lost) = Join(one, Join(rest, lost)) /\ Join(rest, lost) \in Seq(Bytes)
    BY <1>2, <2>1, JoinAssoc
  <2>3. Join(Join(front, one), Join(rest, lost)) = Join(front, Join(one, Join(rest, lost)))
    BY <2>1, <2>2, JoinAssoc
  <2> QED
    BY <2>1, <2>2, <2>3
<1>6. Reading(rd2, more)
  <2> DEFINE back == Join(nt, lost)
  <2>1. back \in Seq(Bytes) /\ Join(front, back) = BytesOf(F)
    BY <1>1, JoinAssoc DEF Underway
  <2>2. rd2 = [rd EXCEPT !.in = Append(@, byte)] /\ Reading(rd, front)
    BY <1>1 DEF HeldBy, byte
  <2> HIDE DEF back
  <2>3. Reading([rd EXCEPT !.in = Append(@, byte)], Append(front, byte))
    BY <1>2, <2>1, <2>2, ReadingMore
  <2> QED
    BY <2>2, <2>3 DEF more
<1> HIDE DEF more
<1>7. Underway(more, rest, lost, F) /\ HeldBy(rd2, proc, rc, H, more)
  BY <1>1, <1>5, <1>6 DEF Underway, HeldBy
<1> QED
  BY <1>1, <1>4, <1>7 DEF FlowOf, rest

LEMMA FlowWaits ==
    ASSUME NEW k, NEW st, NEW s, NEW cs, NEW cc, NEW rw, NEW rd, NEW proc, NEW rc,
           NEW nt \in Seq(Bytes), FlowOf(k, st, s, cs, cc, rw, rd, proc, rc, nt)
    PROVE  FlowOf(k, st, s, cs, cc, rw, readFrame(rd), proc, rc, nt)
<1>1. PICK H \in Seq(Wire), F \in Seq(Wire), front \in Seq(Bytes), lost \in Seq(Bytes) :
          /\ Underway(front, nt, lost, F)
          /\ HeldBy(rd, proc, rc, H, front)
          /\ PromisedBy(k, st, s, cs, cc, rw, Join(H, F), lost)
  BY DEF FlowOf
<1> DEFINE back == Join(nt, lost)
<1>2. back \in Seq(Bytes) /\ Join(front, back) = BytesOf(F)
  BY <1>1, JoinAssoc DEF Underway
<1> HIDE DEF back
<1>3. Reading(readFrame(rd), front)
  BY <1>1, <1>2, ReadingOn DEF HeldBy
<1>4. HeldBy(readFrame(rd), proc, rc, H, front)
  BY <1>1, <1>3 DEF HeldBy
<1> QED
  BY <1>1, <1>4 DEF FlowOf

\* A frame that readFrame returns is the next of those written; when it is legal
\* and no close frame, the bytes behind it are those of the frames that follow.
LEMMA FlowReads ==
    ASSUME NEW k, NEW st, NEW s, NEW cs, NEW cc, NEW rw, NEW rd, NEW proc, NEW rc,
           NEW nt \in Seq(Bytes), FlowOf(k, st, s, cs, cc, rw, rd, proc, rc, nt),
           NEW r, r = readFrame(rd), r.st = "done"
    PROVE  \E H \in Seq(Wire), f \in Wire, F \in Seq(Wire), lost \in Seq(Bytes) :
              /\ PromisedBy(k, st, s, cs, cc, rw, Join(Append(H, f), F), lost)
              /\ AllRead(H) /\ Decoded(H) /\ proc = ProcessorOf(H) /\ rc = MessagesOf(H)
              /\ Returns(r, f)
              /\ Fits(H, f) /\ f.op # "close" =>
                   FlowOf(k, st, s, cs, cc, rw, NewReader(r.in), ProcessorOf(Append(H, f)),
                          MessagesOf(Append(H, f)), nt)
<1>1. PICK H \in Seq(Wire), F \in Seq(Wire), front \in Seq(Bytes), lost \in Seq(Bytes) :
          /\ Underway(front, nt, lost, F)
          /\ HeldBy(rd, proc, rc, H, front)
          /\ PromisedBy(k, st, s, cs, cc, rw, Join(H, F), lost)
  BY DEF FlowOf
<1> DEFINE back == Join(nt, lost)
<1>2. back \in Seq(Bytes) /\ Join(front, back) = BytesOf(F)
  BY <1>1, JoinAssoc DEF Underway
<1> HIDE DEF back
<1>3. r = readFrame(NewReader(front))
  BY <1>1, <1>2, ReadingOn DEF HeldBy
<1>4. F # <<>>
  <2>1. SUFFICES ASSUME F = <<>> PROVE FALSE
    OBVIOUS
  <2>2. front = <<>>
    BY <1>2, <2>1, FrontLengths
  <2>3. r = NewReader(<<>>)
    <3>1. <<>> \in Seq(Bytes)
      BY BytesNone
    <3> QED
      BY <1>3, <2>2, <3>1, ReadingNew
  <2>4. r.st = "header"
    BY <2>3, NewReaderIs, RdFields
  <2> QED
    BY <2>4
<1> DEFINE f == F[1]
           T == Tail(F)
           rest == BytesOf(T)
<1>5. f \in Wire /\ T \in Seq(Wire) /\ F = Join(<<f>>, T) /\ BytesOf(F) = Join(RawBytes(f), rest)
      /\ <<f>> \in Seq(Wire)
  BY <1>4, BytesFirst, BytesOne
<1>6. rest \in Seq(Bytes)
  BY <1>5, RawsType
<1> HIDE DEF f, T, rest
<1>7. /\ Returns(r, f) /\ r.in \in Seq(Bytes)
      /\ WellFormed(f) /\ f.n <= MaxFrame => Join(r.in, back) = rest
  <2>1. Join(front, back) = Join(RawBytes(f), rest)
    BY <1>2, <1>5
  <2> QED
    BY <1>2, <1>3, <1>5, <1>6, <2>1, FirstFrame
<1> DEFINE g == Append(H, f)
<1>8. g \in Seq(Wire) /\ Join(g, T) = Join(H, F)
  <2> DEFINE one == <<f>>
  <2>1. g = Join(H, one) /\ one \in Seq(Wire) /\ F = Join(one, T)
    BY <1>5 DEF Join
  <2> HIDE DEF one, g
  <2> QED
    BY <1>5, <2>1, JoinAssoc
<1>9. PromisedBy(k, st, s, cs, cc, rw, Join(g, T), lost)
  BY <1>1, <1>8
<1>10. H \in Seq(Frames) /\ f \in Frames
  BY <1>5, WireFrames
<1>11. ASSUME Fits(H, f), f.op # "close"
       PROVE  FlowOf(k, st, s, cs, cc, rw, NewReader(r.in), ProcessorOf(g), MessagesOf(g), nt)
  <2>1. WellFormed(f) /\ f.n <= MaxFrame
    <3>1. f.n \in Nat /\ MaxFrame \in Nat
      BY <1>10, LimitsAssumption DEF Frames
    <3> QED
      BY <1>11, <3>1 DEF Fits, Breaks, Exceeds
  <2>2. AllRead(g) /\ Decoded(g)
    <3>1. AllRead(H) /\ Decoded(H)
      BY <1>1 DEF HeldBy
    <3> HIDE DEF g
    <3>2. g = Append(H, f)
      BY DEF g
    <3> QED
      BY <1>10, <1>11, <3>1, <3>2, AllReadThen, DecodedThen
  <2>3. Reading(NewReader(r.in), r.in)
    BY <1>7, ReadingNew
  <2>4. Underway(r.in, nt, lost, T)
    BY <1>7, <2>1 DEF Underway, back, rest
  <2> HIDE DEF g
  <2>5. HeldBy(NewReader(r.in), ProcessorOf(g), MessagesOf(g), g, r.in)
    BY <2>2, <2>3 DEF HeldBy
  <2> QED
    BY <1>5, <1>7, <1>8, <1>9, <2>4, <2>5 DEF FlowOf
<1>12. AllRead(H) /\ Decoded(H) /\ proc = ProcessorOf(H) /\ rc = MessagesOf(H)
  BY <1>1 DEF HeldBy
<1> QED
  BY <1>5, <1>7, <1>9, <1>11, <1>12

-----------------------------------------------------------------------------
(* What processData makes of a frame that has come out of the stream.      *)

WrongIn(rw, code) ==
    \E i \in DOMAIN rw :
        \/ code = CloseCodeProtocolError /\ BreaksProtocol(rw, i)
        \/ code = CloseCodeTooMuchData /\ TooLarge(rw, i)
        \/ code = CloseCodeWrongDatatype /\ BadText(rw, i)
        \/ rw[i].op = "close" /\ ClosesWith(rw[i].values, code)

LEMMA WrongAt ==
    ASSUME NEW H \in Seq(Frames), NEW f \in Frames, NEW F \in Seq(Frames),
           NEW rw, rw = Join(Append(H, f), F), NEW code,
           Fault(H, f, code) \/ (f.op = "close" /\ ClosesWith(f.values, code))
    PROVE  WrongIn(rw, code)
<1> DEFINE g == Append(H, f)
           i == Len(g)
<1>1. g \in Seq(Frames) /\ i = Len(H) + 1 /\ g[i] = f /\ i \in 1..Len(g)
  BY Grown
<1>2. /\ Len(rw) = Len(g) + Len(F) /\ Len(g) \in Nat /\ Len(F) \in Nat /\ rw \in Seq(Frames)
      /\ \A j \in 1..Len(g) : rw[j] = g[j]
  BY <1>1, JoinIs DEF Join
<1>3. Begins(g, rw)
  BY <1>1, <1>2 DEF Begins
<1>4. i \in DOMAIN rw /\ rw[i] = f
  BY <1>1, <1>2
<1>5. /\ BreaksProtocol(rw, i) = BreaksProtocol(g, i)
      /\ TooLarge(rw, i) = TooLarge(g, i)
      /\ BadText(rw, i) = BadText(g, i)
  <2> HIDE DEF g, i
  <2> QED
    BY <1>1, <1>3, SameFrame
<1>6. /\ BreaksProtocol(g, i) <=> Breaks(H, f)
      /\ TooLarge(g, i) <=> Exceeds(H, f)
      /\ BadText(g, i) <=> Garbles(H, f)
  BY FrameThen
<1> HIDE DEF g, i
<1>7. /\ Breaks(H, f) => BreaksProtocol(rw, i)
      /\ Exceeds(H, f) => TooLarge(rw, i)
      /\ Garbles(H, f) => BadText(rw, i)
  BY <1>5, <1>6, Zenon
<1> QED
  BY <1>4, <1>7 DEF WrongIn, Fault

AnswerTo(code) == IF isCloseCodeValid(code) THEN code ELSE CloseCodeProtocolError

HeardOn(k, st, s, cs, cc, rw, r, out, rc, nt) ==
    out.signal.kind \in {"none", "ping", "pong"} =>
        FlowOf(k, st, s, cs, cc, rw, NewReader(r.in), out.p, rc, nt)

HeardMessage(k, st, s, cs, cc, rw, r, out, rc, nt) ==
    \A m : out.signal.kind = "message" /\ m = [op |-> out.signal.op, data |-> out.signal.data] =>
        /\ m \in Msgs
        /\ FlowOf(k, st, s, cs, cc, rw, NewReader(r.in), out.p, Append(rc, m), nt)
        /\ Starts(Append(rc, m), s)

HeardPing(signal) ==
    signal.kind = "ping" => signal.data \in Seq(Nat) /\ Len(signal.data) <= Len7

HeardClose(k, st, s, cs, cc, rw, rc, signal) ==
    signal.kind = "close" =>
        /\ signal.code \in Nat /\ signal.data \in Seq(Nat) /\ LegalText(signal.data, TRUE)
        /\ k = "qt" => cs /\ signal.code = AnswerTo(cc) /\ rc = s
        /\ k = "raw" /\ signal.code \in FailureCodes => WrongIn(rw, signal.code)

HeardError(k, rw, signal) ==
    signal.kind = "error" =>
        /\ signal.code \in FailureCodes /\ signal.data = <<>>
        /\ k = "raw" => WrongIn(rw, signal.code)

Heard(k, st, s, cs, cc, rw, r, out, rc, nt) ==
    /\ out.signal.kind \in SignalKinds
    /\ HeardOn(k, st, s, cs, cc, rw, r, out, rc, nt)
    /\ HeardMessage(k, st, s, cs, cc, rw, r, out, rc, nt)
    /\ HeardPing(out.signal)
    /\ HeardClose(k, st, s, cs, cc, rw, rc, out.signal)
    /\ HeardError(k, rw, out.signal)

LEMMA HeardAre ==
    ASSUME NEW k, NEW st, NEW s \in Seq(Msgs), NEW cs, NEW cc \in Nat, NEW rw,
           NEW r, NEW out, NEW rc, NEW nt,
           NEW H \in Seq(Wire), NEW f \in Wire, NEW F \in Seq(Wire), NEW lost,
           PromisedBy(k, st, s, cs, cc, rw, Join(Append(H, f), F), lost),
           AllRead(H), Decoded(H), rc = MessagesOf(H), Returns(r, f),
           out = processFrame(ProcessorOf(H), r),
           Fits(H, f) /\ f.op # "close" =>
               FlowOf(k, st, s, cs, cc, rw, NewReader(r.in), ProcessorOf(Append(H, f)),
                      MessagesOf(Append(H, f)), nt)
    PROVE  Heard(k, st, s, cs, cc, rw, r, out, rc, nt)
<1> DEFINE g == Append(H, f)
           G == Join(g, F)
           sg == out.signal
<1>1. H \in Seq(Frames) /\ f \in Frames /\ F \in Seq(Frames) /\ g \in Seq(Frames)
  BY WireFrames
<1>2. PromisedBy(k, st, s, cs, cc, rw, G, lost)
  OBVIOUS
<1>3. Fits(H, f) /\ f.op # "close" =>
         FlowOf(k, st, s, cs, cc, rw, NewReader(r.in), ProcessorOf(g), MessagesOf(g), nt)
  OBVIOUS
<1>4. MessagesOf(g) = IF AllRead(H) /\ Fits(H, f) /\ IsData(f) /\ f.fin
                      THEN Append(MessagesOf(H), [op |-> NextOp(H, f), data |-> NextData(H, f)])
                      ELSE MessagesOf(H)
  BY <1>1, MessagesThen
<1>5. \/ Completes(H, f, out) \/ Continues(H, f, out) \/ Controls(H, f, out)
      \/ ClosesThen(H, f, out) \/ Fails(H, f, out)
  BY <1>1, FrameOutcome
<1>6. k = "raw" => \A code : Fault(H, f, code) \/ (f.op = "close" /\ ClosesWith(f.values, code))
                               => WrongIn(rw, code)
  <2>1. k = "raw" => rw = Join(Append(H, f), F)
    BY <1>2 DEF PromisedBy
  <2> HIDE DEF g, G
  <2> QED
    BY <1>1, <2>1, WrongAt
<1>7. CASE Completes(H, f, out)
  <2> DEFINE op == NextOp(H, f)  data == NextData(H, f)  m == [op |-> op, data |-> data]
             pr == ProcessorOf(g)  ms == MessageSignal(op, data)
             done == TRUE
  <2>1. out = Outcome(pr, done, ms) /\ Fits(H, f) /\ IsData(f) /\ f.fin
    BY <1>7 DEF Completes
  <2>2. op \in Opcodes /\ data \in Seq(Nat)
    BY <1>1, FrameThen
  <2>3. m \in Msgs
    BY <2>2 DEF Msgs
  <2>4. f.op # "close"
    BY <2>1 DEF IsData, Control
  <2>5. MessagesOf(g) = Append(rc, m)
    BY <1>4, <2>1
  <2>6. Starts(MessagesOf(g), s)
    <3>1. Starts(MessagesOf(g), MessagesOf(G))
      BY <1>1, MessagesJoin
    <3> HIDE DEF g, G
    <3> QED
      BY <1>2, <3>1 DEF PromisedBy
  <2> HIDE DEF op, data, pr, ms, g, done
  <2>7. out.p = pr /\ out.signal = ms
    BY <2>1, OutcomeIs
  <2>8. ms.kind = "message" /\ ms.op = op /\ ms.data = data
    BY SignalIs DEF ms
  <2>9. FlowOf(k, st, s, cs, cc, rw, NewReader(r.in), out.p, Append(rc, m), nt)
    BY <1>3, <2>1, <2>4, <2>5, <2>7 DEF pr
  <2>10. Starts(Append(rc, m), s)
    BY <2>5, <2>6
  <2>11. [op |-> out.signal.op, data |-> out.signal.data] = m
    BY <2>7, <2>8
  <2> HIDE DEF m
  <2>12. HeardMessage(k, st, s, cs, cc, rw, r, out, rc, nt)
    BY <2>3, <2>9, <2>10, <2>11 DEF HeardMessage
  <2> QED
    BY <2>7, <2>8, <2>12 DEF Heard, HeardOn, HeardPing, HeardClose, HeardError, SignalKinds
<1>8. CASE Continues(H, f, out)
  <2> DEFINE pr == ProcessorOf(g)  ms == Signal("none")  done == FALSE
  <2>1. out = Outcome(pr, done, ms) /\ Fits(H, f) /\ IsData(f) /\ ~f.fin
    BY <1>8 DEF Continues
  <2>2. f.op # "close"
    BY <2>1 DEF IsData, Control
  <2>3. MessagesOf(g) = rc
    BY <1>4, <2>1
  <2> HIDE DEF pr, ms, g, done
  <2>4. out.p = pr /\ out.signal = ms
    BY <2>1, OutcomeIs
  <2>5. ms.kind = "none"
    BY SignalIs DEF ms
  <2>6. FlowOf(k, st, s, cs, cc, rw, NewReader(r.in), out.p, rc, nt)
    BY <1>3, <2>1, <2>2, <2>3, <2>4 DEF pr
  <2> QED
    BY <2>4, <2>5, <2>6
       DEF Heard, HeardOn, HeardMessage, HeardPing, HeardClose, HeardError, SignalKinds
<1>9. CASE Controls(H, f, out)
  <2> DEFINE pr == ProcessorOf(g)  ms == [Signal(f.op) EXCEPT !.data = f.values]
             done == TRUE
  <2>1. /\ out = Outcome(pr, done, ms) /\ Fits(H, f) /\ ~IsData(f) /\ f.op \in {"ping", "pong"}
        /\ f.n <= Len7 /\ f.n = Len(f.values)
    BY <1>9 DEF Controls
  <2>2. MessagesOf(g) = rc
    BY <1>4, <2>1
  <2>3. f.values \in Seq(Nat)
    BY <1>1 DEF Frames
  <2> HIDE DEF pr, ms, g, done
  <2>4. out.p = pr /\ out.signal = ms
    BY <2>1, OutcomeIs
  <2>5. ms.kind = f.op /\ ms.data = f.values
    BY SignalIs DEF ms
  <2>6. FlowOf(k, st, s, cs, cc, rw, NewReader(r.in), out.p, rc, nt)
    BY <1>3, <2>1, <2>2, <2>4 DEF pr
  <2>7. sg.kind \in {"ping", "pong"} /\ HeardPing(sg)
    BY <2>1, <2>3, <2>4, <2>5 DEF HeardPing
  <2> QED
    BY <2>6, <2>7 DEF Heard, HeardOn, HeardMessage, HeardClose, HeardError, SignalKinds
<1>10. CASE ClosesThen(H, f, out)
  <2> DEFINE pr == ProcessorOf(H)  ms == CloseSignal(f.values)  values == f.values
             reason == SubSeq(values, 3, Len(values))  done == TRUE
  <2>1. out = Outcome(pr, done, ms) /\ Fits(H, f) /\ f.op = "close"
    BY <1>10 DEF ClosesThen
  <2>2. values \in Seq(Nat) /\ ms = CloseSignal(values)
    BY <1>1 DEF Frames
  <2> HIDE DEF pr, ms, values, reason, done
  <2>3. out.p = pr /\ out.signal = ms
    BY <2>1, OutcomeIs
  <2>4. /\ ms.kind = "close" /\ ms.code \in Nat /\ ms.data \in Seq(Nat) /\ LegalText(ms.data, TRUE)
        /\ values = <<>> => ms.code = CloseCodeNormal
        /\ Len(values) = 1 \/ (Len(values) > 1 /\ ~isCloseCodeValid(values[1]))
             => ms.code = CloseCodeProtocolError
        /\ Len(values) > 1 /\ isCloseCodeValid(values[1]) =>
             ms.code = IF LegalText(reason, TRUE) THEN values[1] ELSE CloseCodeWrongDatatype
    BY <2>2, CloseFrameIs DEF reason
  <2>5. Len(values) \in Nat /\ (Len(values) = 0 => values = <<>>)
    BY <2>2
  <2>6. ASSUME k = "raw", ms.code \in FailureCodes
        PROVE  WrongIn(rw, ms.code)
    <3>1. Len(values) # 0
      BY <2>4, <2>5, <2>6 DEF FailureCodes, CloseCodeNormal, CloseCodeProtocolError,
                              CloseCodeWrongDatatype, CloseCodeTooMuchData
    <3>2. ClosesWith(values, ms.code)
      <4>1. CASE Len(values) = 1 \/ (Len(values) > 1 /\ ~isCloseCodeValid(values[1]))
        BY <2>4, <4>1 DEF ClosesWith
      <4>2. CASE Len(values) > 1 /\ isCloseCodeValid(values[1])
        BY <2>4, <4>2 DEF ClosesWith, reason
      <4>3. Len(values) = 1 \/ Len(values) > 1
        <5>1. \A x \in Nat : x # 0 => x = 1 \/ x > 1
          OBVIOUS
        <5> QED
          BY <2>5, <3>1, <5>1, Zenon
      <4> QED
        BY <4>1, <4>2, <4>3, Zenon
    <3> QED
      BY <1>6, <2>1, <2>6, <3>2 DEF values
  <2>7. ASSUME k = "qt"
        PROVE  cs /\ ms.code = AnswerTo(cc) /\ rc = s
    <3> DEFINE n == Len(g)
    <3>1. g \in Seq(Frames) /\ n \in 1..Len(G) /\ G[n] = f
      <4>1. g \in Seq(Frames) /\ n \in 1..n /\ g[n] = f
        BY <1>1, Grown
      <4>2. Len(G) = n + Len(F) /\ n \in Nat /\ Len(F) \in Nat /\ \A i \in 1..n : G[i] = g[i]
        BY <1>1, JoinIs DEF Join
      <4> QED
        BY <4>1, <4>2
    <3>2. cs /\ CloseFrame(f, cc)
      <4> HIDE DEF n, G
      <4> QED
        BY <1>2, <2>1, <2>7, <3>1 DEF PromisedBy, ClosesAre
    <3>3. PICK why \in Seq(Nat) : LegalText(why, TRUE) /\ values = Join(<<cc, LowByte>>, why)
      BY <3>2 DEF CloseFrame, values
    <3>4. Len(values) > 1 /\ values[1] = cc /\ reason = why
      BY <3>3 DEF Join, reason, LowByte
    <3>5. ms.code = AnswerTo(cc)
      BY <2>4, <3>3, <3>4 DEF AnswerTo
    <3>6. rc = s
      <4>1. s = MessagesOf(G)
        BY <1>2 DEF PromisedBy
      <4>2. ~AllRead(g)
        <5> HIDE DEF g
        <5>1. g = Append(H, f)
          BY DEF g
        <5> QED
          BY <1>1, <2>1, <5>1, AllReadThen
      <4>3. MessagesOf(G) = MessagesOf(g)
        <5> HIDE DEF g
        <5> QED
          BY <1>1, <4>2, MessagesJoin
      <4>4. ~IsData(f)
        BY <2>1 DEF IsData, Control
      <4> QED
        BY <1>4, <4>1, <4>3, <4>4
    <3> QED
      BY <3>2, <3>5, <3>6
  <2>8. HeardClose(k, st, s, cs, cc, rw, rc, out.signal)
    BY <2>3, <2>4, <2>6, <2>7 DEF HeardClose
  <2> QED
    BY <2>3, <2>4, <2>8 DEF Heard, HeardOn, HeardMessage, HeardPing, HeardError, SignalKinds
<1>11. CASE Fails(H, f, out)
  <2>1. PICK code \in {CloseCodeProtocolError, CloseCodeTooMuchData, CloseCodeWrongDatatype} :
            Fault(H, f, code) /\ out = Fail(code)
    BY <1>11 DEF Fails
  <2>2. sg.kind = "error" /\ sg.code = code /\ sg.data = <<>>
    BY <2>1 DEF Fail, Outcome, Signal
  <2>3. k = "raw" => WrongIn(rw, code)
    BY <1>6, <2>1
  <2>4. code \in FailureCodes
    BY <2>1 DEF FailureCodes
  <2> QED
    BY <2>2, <2>3, <2>4
       DEF Heard, HeardOn, HeardMessage, HeardPing, HeardClose, HeardError, SignalKinds
<1> QED
  BY <1>5, <1>7, <1>8, <1>9, <1>10, <1>11

\* The next signal of the processor is what the peer has written.
LEMMA HeardFromPeer ==
    ASSUME NEW k, NEW st, NEW s \in Seq(Msgs), NEW cs, NEW cc \in Nat, NEW rw, NEW rd, NEW proc,
           NEW rc, NEW nt \in Seq(Bytes), FlowOf(k, st, s, cs, cc, rw, rd, proc, rc, nt),
           NEW r, r = readFrame(rd), r.st = "done", NEW out, out = processFrame(proc, r)
    PROVE  Heard(k, st, s, cs, cc, rw, r, out, rc, nt)
<1>1. PICK H \in Seq(Wire), f \in Wire, F \in Seq(Wire), lost \in Seq(Bytes) :
              /\ PromisedBy(k, st, s, cs, cc, rw, Join(Append(H, f), F), lost)
              /\ AllRead(H) /\ Decoded(H) /\ proc = ProcessorOf(H) /\ rc = MessagesOf(H)
              /\ Returns(r, f)
              /\ Fits(H, f) /\ f.op # "close" =>
                   FlowOf(k, st, s, cs, cc, rw, NewReader(r.in), ProcessorOf(Append(H, f)),
                          MessagesOf(Append(H, f)), nt)
  BY FlowReads
<1> QED
  BY <1>1, HeardAre

-----------------------------------------------------------------------------
(* What the ends write, as bytes.                                          *)

\* The bytes of a message, of which every frame carries the same key.
Spoken(m, key) == MessageBytes(m.op, m.data, [i \in 1..NumFrames(m.data) |-> key])

LEMMA SpokenBytes ==
    ASSUME NEW m \in Messages, NEW key \in {0, 1}
    PROVE  Spoken(m, key) \in Seq(Bytes)
<1>1. FramesOf(m, key) \in Seq(Wire) /\ BytesOf(FramesOf(m, key)) = Spoken(m, key)
  BY FramesOfBytes DEF Spoken
<1> QED
  BY <1>1, RawsType

LEMMA WritesMessage ==
    ASSUME NEW s \in Seq(Msgs), NEW cs, NEW cc, NEW rw, NEW rd, NEW proc, NEW rc,
           NEW nt \in Seq(Bytes), FlowOf("qt", "Connected", s, cs, cc, rw, rd, proc, rc, nt),
           NEW m \in Messages, NEW key \in {0, 1}
    PROVE  /\ FlowOf("qt", "Connected", Append(s, m), cs, cc, rw, rd, proc, rc,
                     Join(nt, Spoken(m, key)))
           /\ Spoken(m, key) \in Seq(Bytes)
<1> DEFINE fs == FramesOf(m, key)
           k == "qt"
           st == "Connected"
           s2 == Append(s, m)
<1>1. fs \in Seq(Wire) /\ BytesOf(fs) = Spoken(m, key)
  BY FramesOfBytes DEF Spoken
<1>2. BytesOf(fs) \in Seq(Bytes)
  BY <1>1, RawsType
<1>3. \A G \in Seq(Wire) : PromisedBy(k, "Connected", s, cs, cc, rw, G, <<>>)
                              => PromisedBy(k, st, s2, cs, cc, rw, Join(G, fs), <<>>)
  BY PromiseMessage
<1>4. FlowOf(k, "Connected", s, cs, cc, rw, rd, proc, rc, nt)
  OBVIOUS
<1> HIDE DEF fs, k, st, s2
<1>5. FlowOf(k, st, s2, cs, cc, rw, rd, proc, rc, Join(nt, BytesOf(fs)))
  BY <1>1, <1>3, <1>4, FlowGrows
<1> QED
  BY <1>1, <1>2, <1>5 DEF k, st, s2

LEMMA WritesControl ==
    ASSUME NEW s \in Seq(Msgs), NEW cs, NEW cc, NEW rw, NEW rd, NEW proc, NEW rc,
           NEW nt \in Seq(Bytes), FlowOf("qt", "Connected", s, cs, cc, rw, rd, proc, rc, nt),
           NEW op \in {"ping", "pong"}, NEW values \in Seq(Nat), Len(values) <= Len7,
           NEW key \in {0, 1}
    PROVE  FlowOf("qt", "Connected", s, cs, cc, rw, rd, proc, rc,
                  Join(nt, FrameBytes(op, values, key, TRUE)))
<1> DEFINE fn == TRUE
           f == AsFrame(op, values, key, fn)
           fs == <<f>>
           k == "qt"
           st == "Connected"
<1>1. op \in Opcodes /\ fn \in BOOLEAN /\ (fn <=> TRUE)
  BY DEF Opcodes, Control
<1>2. /\ f \in Wire /\ RawBytes(f) = FrameBytes(op, values, key, fn)
      /\ f.op = op /\ f.n = Len(values)
      /\ WellFormed(f) <=> /\ ~isOpCodeReserved(op)
                           /\ op \in Control => fn /\ Len(values) <= Len7
                           /\ Len(values) <= Len63
  <2> HIDE DEF fn, f
  <2>1. f = AsFrame(op, values, key, fn)
    BY DEF f
  <2>2. op \in Opcodes /\ fn \in BOOLEAN
    BY <1>1
  <2>3. /\ f \in Wire /\ RawBytes(f) = FrameBytes(op, values, key, fn)
        /\ f.op = op /\ f.n = Len(values)
    BY <2>1, <2>2, WrittenIsRaw
  <2>4. ASSUME NEW b \in BOOLEAN, b = fn
        PROVE  WellFormed(f) <=> /\ ~isOpCodeReserved(op)
                                 /\ op \in Control => b /\ Len(values) <= Len7
                                 /\ Len(values) <= Len63
    <3>1. f = AsFrame(op, values, key, b)
      BY <2>1, <2>4
    <3> QED
      BY <2>2, <3>1, WrittenIsRaw
  <2> QED
    BY <2>2, <2>3, <2>4, Zenon
<1>3. Len(values) \in Nat /\ Len(values) <= Len63 /\ Len(values) <= MaxFrame
  <2>1. Len(values) \in Nat
    OBVIOUS
  <2> QED
    BY <2>1, LimitsAssumption
<1>4. WellFormed(f) /\ f.n <= MaxFrame
  BY <1>2, <1>3 DEF isOpCodeReserved
<1>5. BytesOf(fs) = FrameBytes(op, values, key, TRUE) /\ fs \in Seq(Wire)
  <2> HIDE DEF f
  <2> QED
    BY <1>2, BytesOne
<1>6. \A G \in Seq(Wire) : PromisedBy(k, "Connected", s, cs, cc, rw, G, <<>>)
                              => PromisedBy(k, st, s, cs, cc, rw, Join(G, fs), <<>>)
  <2> HIDE DEF f
  <2> QED
    BY <1>2, <1>4, PromiseControl
<1>7. FlowOf(k, "Connected", s, cs, cc, rw, rd, proc, rc, nt)
  OBVIOUS
<1> HIDE DEF fn, f, fs, k, st
<1>8. FlowOf(k, st, s, cs, cc, rw, rd, proc, rc, Join(nt, BytesOf(fs)))
  BY <1>5, <1>6, <1>7, FlowGrows
<1> QED
  BY <1>5, <1>8 DEF k, st

\* The bytes of a last message, or none.
LastIs(tail, key) == tail = <<>> \/ \E m \in Messages : tail = Spoken(m, key)

LEMMA LastFrames ==
    ASSUME NEW tail, NEW key \in {0, 1}, LastIs(tail, key)
    PROVE  \E t \in Seq(Wire) : /\ \A i \in 1..Len(t) : t[i].op # "close"
                                /\ BytesOf(t) = tail
<1>1. CASE tail = <<>>
  <2>1. BytesOf(<<>>) = tail /\ <<>> \in Seq(Wire)
    BY <1>1, BytesNone
  <2>2. \A i \in 1..Len(<<>>) : <<>>[i].op # "close"
    OBVIOUS
  <2> QED
    BY <2>1, <2>2
<1>2. CASE tail # <<>>
  <2>1. PICK m \in Messages : tail = Spoken(m, key)
    BY <1>2 DEF LastIs
  <2> DEFINE t == FramesOf(m, key)
  <2>2. t \in Seq(Wire) /\ BytesOf(t) = tail /\ \A i \in 1..Len(t) : t[i].op # "close"
    BY <2>1, FramesOfBytes DEF Spoken
  <2> HIDE DEF t
  <2> QED
    BY <2>2
<1> QED
  BY <1>1, <1>2

ClosingBytes(code, reason, key) == FrameBytes("close", <<code, LowByte>> \o reason, key, TRUE)

LEMMA ClosingBytesType ==
    ASSUME NEW code \in Nat, NEW reason \in Seq(Nat), NEW key \in {0, 1}
    PROVE  ClosingBytes(code, reason, key) \in Seq(Bytes)
<1> DEFINE fn == TRUE
           op == "close"
           values == <<code, LowByte>> \o reason
           f == AsFrame(op, values, key, fn)
<1>1. op \in Opcodes /\ fn \in BOOLEAN /\ values \in Seq(Nat)
  BY DEF Opcodes, Control, LowByte
<1> HIDE DEF fn, f, op, values
<1>2. f = AsFrame(op, values, key, fn)
  BY DEF f
<1>3. f \in Wire /\ RawBytes(f) = FrameBytes(op, values, key, fn)
  BY <1>1, <1>2, WrittenIsRaw
<1>4. RawBytes(f) \in Seq(Bytes)
  BY <1>3, RawType
<1> QED
  BY <1>3, <1>4 DEF fn, op, values, ClosingBytes

LEMMA WritesClose ==
    ASSUME NEW s \in Seq(Msgs), NEW cs, NEW cc, NEW rw, NEW rd, NEW proc, NEW rc,
           NEW nt \in Seq(Bytes), FlowOf("qt", "Connected", s, cs, cc, rw, rd, proc, rc, nt),
           NEW code \in Nat, NEW reason \in Seq(Nat), LegalText(reason, TRUE),
           NEW key \in {0, 1}, NEW tail, LastIs(tail, key),
           NEW st2, st2 # "Connected", NEW cs2, cs2,
           NEW bytes, bytes = ClosingBytes(code, reason, key)
    PROVE  /\ FlowOf("qt", st2, s, cs2, code, rw, rd, proc, rc, Join(nt, Join(bytes, tail)))
           /\ bytes \in Seq(Bytes) /\ tail \in Seq(Bytes)
<1> DEFINE fn == TRUE
           op == "close"
           values == <<code, LowByte>> \o reason
           f == AsFrame(op, values, key, fn)
           k == "qt"
<1>1. op \in Opcodes /\ fn \in BOOLEAN /\ values \in Seq(Nat)
  BY DEF Opcodes, Control, LowByte
<1>2. /\ f \in Wire /\ RawBytes(f) = bytes /\ f.op = op /\ f.values = values
  <2>1. bytes = FrameBytes(op, values, key, fn)
    BY DEF ClosingBytes
  <2> HIDE DEF fn, f, op, values
  <2>2. f = AsFrame(op, values, key, fn)
    BY DEF f
  <2>3. /\ f \in Wire /\ RawBytes(f) = FrameBytes(op, values, key, fn)
        /\ f.op = op /\ f.values = values
    BY <1>1, <2>2, WrittenIsRaw
  <2> QED
    BY <2>1, <2>3
<1> HIDE DEF f
<1>3. CloseFrame(f, code) /\ f.op = "close"
  BY <1>2 DEF CloseFrame, Join
<1>4. PICK t \in Seq(Wire) : (\A i \in 1..Len(t) : t[i].op # "close") /\ BytesOf(t) = tail
  BY LastFrames
<1> DEFINE fs == Join(<<f>>, t)
<1>5. fs \in Seq(Wire) /\ BytesOf(fs) = Join(bytes, tail)
  <2> DEFINE one == <<f>>
  <2>1. one \in Seq(Wire) /\ BytesOf(one) = bytes
    BY <1>2, BytesOne
  <2> HIDE DEF one
  <2>2. BytesOf(Join(one, t)) = Join(BytesOf(one), BytesOf(t)) /\ Join(one, t) \in Seq(Wire)
    BY <2>1, BytesJoin
  <2> QED
    BY <1>4, <2>1, <2>2 DEF one
<1>6. bytes \in Seq(Bytes) /\ tail \in Seq(Bytes)
  BY <1>2, <1>4, RawType, RawsType
<1>7. \A G \in Seq(Wire) : PromisedBy(k, "Connected", s, cs, cc, rw, G, <<>>)
                              => PromisedBy(k, st2, s, cs2, code, rw, Join(G, fs), <<>>)
  BY <1>2, <1>3, <1>4, PromiseClose
<1>8. FlowOf(k, "Connected", s, cs, cc, rw, rd, proc, rc, nt)
  OBVIOUS
<1> HIDE DEF k, fs
<1>9. FlowOf(k, st2, s, cs2, code, rw, rd, proc, rc, Join(nt, BytesOf(fs)))
  BY <1>5, <1>7, <1>8, FlowGrows
<1> QED
  BY <1>5, <1>6, <1>9 DEF k

LEMMA WritesRaw ==
    ASSUME NEW s, NEW cs, NEW cc, NEW rw \in Seq(Wire), NEW rd, NEW proc, NEW rc,
           NEW nt \in Seq(Bytes), FlowOf("raw", "Connected", s, cs, cc, rw, rd, proc, rc, nt),
           NEW f \in Wire, NEW rw2, rw2 = Append(rw, f)
    PROVE  FlowOf("raw", "Connected", MessagesOf(rw2), cs, cc, rw2, rd, proc, rc,
                  Join(nt, RawBytes(f)))
<1> DEFINE fs == <<f>>
           k == "raw"
           st == "Connected"
           s2 == MessagesOf(rw2)
<1>1. fs \in Seq(Wire) /\ BytesOf(fs) = RawBytes(f)
  BY BytesOne
<1>2. \A G \in Seq(Wire) : PromisedBy(k, "Connected", s, cs, cc, rw, G, <<>>)
                              => PromisedBy(k, st, s2, cs, cc, rw2, Join(G, fs), <<>>)
  BY PromiseRaw
<1>3. FlowOf(k, "Connected", s, cs, cc, rw, rd, proc, rc, nt)
  OBVIOUS
<1> HIDE DEF fs, k, st, s2
<1>4. FlowOf(k, st, s2, cs, cc, rw2, rd, proc, rc, Join(nt, BytesOf(fs)))
  BY <1>1, <1>2, <1>3, FlowGrows
<1> QED
  BY <1>1, <1>4 DEF k, st, s2

LEMMA NoMessages ==
    ASSUME NEW none, none = <<>>
    PROVE  MessagesOf(none) = none
<1>1. none \in Seq(Frames) /\ none \in Seq(Wire) /\ Len(none) = 0
  BY BytesNone, WireFrames
<1>2. Given(none) \in Seq(Seq(Msgs)) /\ Len(Given(none)) = 0
  BY <1>1, GivenType
<1>3. Given(none) = <<>>
  <2> HIDE DEF Msgs
  <2> QED
    BY <1>2
<1> QED
  BY <1>1, <1>3, GivenType, FlattenNone

LEMMA FlowStarts ==
    ASSUME NEW k, NEW none, none = <<>>, NEW cs, NEW cc
    PROVE  FlowOf(k, "Connected", none, cs, cc, none, NewReader(none), NewProcessor, none, none)
<1>1. none \in Seq(Wire) /\ none \in Seq(Bytes) /\ none \in Seq(Frames) /\ BytesOf(none) = <<>>
  BY BytesNone, WireFrames
<1>2. Len(none) = 0
  OBVIOUS
<1>3. MessagesOf(none) = none
  BY NoMessages
<1>4. AllRead(none)
  BY <1>2 DEF AllRead
<1>5. ~Opens(none)
  <2>1. DataBefore(none, Len(none) + 1) = {}
    BY <1>2 DEF DataBefore
  <2> QED
    BY <2>1 DEF Opens, OpenBefore
<1>6. Decoded(none) /\ ProcessorOf(none) = NewProcessor
  BY <1>5 DEF Decoded, ProcessorOf, NewProcessor
<1>7. Reading(NewReader(none), none)
  BY <1>1, ReadingNew
<1>8. Join(none, none) = none
  BY <1>1, JoinNone
<1>9. HeldBy(NewReader(none), NewProcessor, none, none, none)
  BY <1>3, <1>4, <1>6, <1>7 DEF HeldBy
<1>10. ClosesAre(none, cs, cc)
  BY <1>2 DEF ClosesAre
<1>11. PromisedBy(k, "Connected", none, cs, cc, none, Join(none, none), none)
  BY <1>3, <1>4, <1>5, <1>8, <1>10 DEF PromisedBy
<1>12. Underway(none, none, none, none)
  BY <1>1, <1>8 DEF Underway
<1> QED
  BY <1>1, <1>9, <1>11, <1>12 DEF FlowOf

-----------------------------------------------------------------------------
(* The invariant.                                                          *)

Flow(x) ==
    FlowOf(kind, state[Other(x)], sent[Other(x)], closeSent[Other(x)], closeCode[Other(x)], raw,
           reader[x], processor[x], rcvd[x], net[x])

Flows == \A x \in QtEnds : Open(x) => Flow(x)

StreamTyped ==
    /\ sent \in [Ends -> Seq(Msgs)]
    /\ rcvd \in [Ends -> Seq(Msgs)]
    /\ net \in [Ends -> Seq(Bytes)]
    /\ processor = [e \in Ends |-> processor[e]]
    /\ closeCode \in [Ends -> Nat]
    /\ raw \in Seq(Wire)
    /\ kind = "raw" => net["client"] = <<>>

\* What an end that got the peer's close frame has made of it.
Done(x) ==
    kind = "qt" /\ closeRcvd[x] =>
        /\ closeSent[Other(x)]
        /\ closeCode[x] = AnswerTo(closeCode[Other(x)])
        /\ rcvd[x] = sent[Other(x)]

Dones == \A x \in Ends : Done(x)

\* The code of a failure is the peer's fault, unless a user gave it to close().
Blamed ==
    kind = "raw" /\ closeCode["server"] \in FailureCodes =>
        \/ WrongIn(raw, closeCode["server"])
        \/ \E c \in Closings : c.code = closeCode["server"]

\* A raw peer is not a QWebSocket: no thread reads for it, and what it sends are frames.
RawPeer == kind = "raw" => ~inside["client"] /\ sent["client"] = MessagesOf(raw)

StreamInv == PeersInv /\ StreamTyped /\ Flows /\ Dones /\ Blamed /\ RawPeer

LEMMA OtherIs ==
    \A e \in Ends : /\ Other(e) \in Ends /\ Other(e) # e /\ Other(Other(e)) = e
                    /\ \A x \in Ends : x = e \/ x = Other(e)
BY DEF Ends, Other

LEMMA BothQt ==
    ASSUME kind \in {"qt", "raw"}, NEW e \in QtEnds, Other(e) \in QtEnds
    PROVE  kind = "qt"
BY DEF QtEnds, Other, Ends

LEMMA QtEndsKept ==
    ASSUME kind' = kind
    PROVE  QtEnds' = QtEnds
BY DEF QtEnds

LEMMA KeyIs ==
    ASSUME NEW e
    PROVE  Key(e) \in {0, 1}
BY MaskKeyAssumption DEF Key

LEMMA RawFramesAre == RawFrames \subseteq Wire
BY RawFramesAssumption DEF Wire, Frames

LEMMA WrittenIs ==
    ASSUME net \in [Ends -> Seq(Bytes)], NEW e \in Ends, NEW bytes \in Seq(Bytes),
           net' = Written(e, bytes)
    PROVE  /\ net' \in [Ends -> Seq(Bytes)]
           /\ net'[e] = net[e]
           /\ net'[Other(e)] = IF Open(e) /\ Other(e) \in QtEnds
                               THEN Join(net[Other(e)], bytes) ELSE net[Other(e)]
           /\ Other(e) \notin QtEnds => net' = net
<1>1. Other(e) \in Ends /\ Other(e) # e
  BY OtherIs
<1>2. Join(net[Other(e)], bytes) \in Seq(Bytes)
  BY <1>1, JoinAssoc
<1> DEFINE more == Join(net[Other(e)], bytes)
<1>3. net' = IF Open(e) /\ Other(e) \in QtEnds THEN [net EXCEPT ![Other(e)] = more] ELSE net
  BY DEF Written, Join
<1> HIDE DEF more, Bytes
<1> QED
  BY <1>1, <1>2, <1>3 DEF more

\* The part of CloseSocket that writes.
ClosingWrites(e, code, reason, tail) ==
    LastIs(tail, Key(e)) /\ net' = Written(e, Join(ClosingBytes(code, reason, Key(e)), tail))

LEMMA ClosingIs ==
    ASSUME NEW e \in Ends, NEW code, NEW reason, CloseSocket(e, code, reason)
    PROVE  \E tail : ClosingWrites(e, code, reason, tail)
<1>1. PICK tail \in LastWords(e) :
          net' = Written(e, FrameBytes("close", <<code, LowByte>> \o reason, Key(e), TRUE) \o tail)
  BY DEF CloseSocket
<1>2. LastIs(tail, Key(e))
  BY FarewellsAssumption DEF LastWords, LastIs, doWriteFrames, Spoken
<1> QED
  BY <1>1, <1>2 DEF Join, ClosingBytes, ClosingWrites

\* An end that has closed sends no message and reports no other code.
LEMMA ClosedIsFinal ==
    ASSUME StreamInv, [Next]_vars, NEW d \in QtEnds, closeSent[d]
    PROVE  /\ closeSent'[d] /\ closeCode'[d] = closeCode[d]
           /\ sent'[d] = sent[d] /\ rcvd'[d] = rcvd[d]
           /\ closeRcvd'[d] = closeRcvd[d]
<1>1. /\ d \in Ends /\ ~Open(d) /\ kind \in {"qt", "raw"}
      /\ sent \in [Ends -> Seq(Msgs)] /\ rcvd \in [Ends -> Seq(Msgs)]
      /\ closeCode \in [Ends -> Nat] /\ closeSent \in Flags /\ closeRcvd \in Flags
  BY EndsAre DEF StreamInv, PeersInv, PeersTyped, PeersTypeOK, StreamTyped
<1>2. ASSUME NEW e \in Ends, NEW code, NEW reason, CloseSocket(e, code, reason), d # e
      PROVE  closeSent'[d] = closeSent[d] /\ closeCode'[d] = closeCode[d]
  BY <1>1, <1>2 DEF CloseSocket, Flags
<1>3. ASSUME NEW e \in Ends, SendMessage(e)
      PROVE  /\ UNCHANGED <<closeSent, closeCode, rcvd, closeRcvd>>
             /\ sent'[d] = sent[d]
  <2>1. Open(e)
    BY <1>3 DEF SendMessage, Open
  <2>2. e # d
    BY <1>1, <2>1
  <2>3. PICK m : sent' = [sent EXCEPT ![e] = Append(@, m)]
    BY <1>3 DEF SendMessage
  <2> QED
    BY <1>1, <1>3, <2>2, <2>3 DEF SendMessage
<1>4. ASSUME NEW e \in Ends, Ping(e) \/ Abort(e) \/ Deliver(e) \/ Closed(e)
      PROVE  UNCHANGED <<closeSent, closeCode, sent, rcvd, closeRcvd>>
  BY <1>4 DEF Ping, Abort, Deliver, Closed
<1>5. ASSUME NEW e \in Ends, Close(e)
      PROVE  /\ closeSent'[d] = closeSent[d] /\ closeCode'[d] = closeCode[d] /\ sent'[d] = sent[d]
             /\ UNCHANGED <<rcvd, closeRcvd>>
  <2>1. e # d
    BY <1>5 DEF Close
  <2>2. PICK c \in Closings : CloseSocket(e, c.code, c.reason)
    BY <1>5 DEF Close
  <2> QED
    BY <1>2, <1>5, <2>1, <2>2 DEF Close
<1>6. ASSUME NEW e \in Ends, Process(e)
      PROVE  /\ closeSent'[d] = closeSent[d] /\ closeCode'[d] = closeCode[d] /\ sent'[d] = sent[d]
             /\ rcvd'[d] = rcvd[d] /\ closeRcvd'[d] = closeRcvd[d]
  <2>1. e # d /\ UNCHANGED sent
    BY <1>1, <1>6 DEF Process
  <2>2. PICK r, outcome :
           IF r.st # "done"
           THEN UNCHANGED <<closeSent, closeRcvd, closeCode, rcvd>>
           ELSE IF Closes(outcome.signal)
                THEN /\ closeRcvd' = [closeRcvd EXCEPT
                                            ![e] = @ \/ outcome.signal.kind = "close"]
                     /\ CloseSocket(e, outcome.signal.code, outcome.signal.data)
                     /\ UNCHANGED rcvd
                ELSE Receive(e, outcome.signal)
                     /\ outcome = processFrame(processor[e], r) /\ r = readFrame(reader[e])
    BY <1>6 DEF Process
  <2>3. CASE r.st # "done"
    BY <2>1, <2>2, <2>3
  <2>4. CASE r.st = "done" /\ Closes(outcome.signal)
    BY <1>1, <1>2, <2>1, <2>2, <2>4 DEF Flags
  <2>5. CASE r.st = "done" /\ ~Closes(outcome.signal)
    <3>1. Known(readFrame(reader[e]))
      BY FrameKnown DEF StreamInv, PeersInv, ReadersKnown
    <3>2. outcome.signal.kind \in SignalKinds /\ Receive(e, outcome.signal)
      BY <2>2, <2>5, <3>1, FrameSignal
    <3>3. outcome.signal.kind \in {"none", "message", "ping", "pong"}
      BY <2>5, <3>2 DEF SignalKinds, Closes
    <3>4. /\ UNCHANGED <<closeSent, closeCode, closeRcvd>>
          /\ \/ UNCHANGED rcvd
             \/ \E m : rcvd' = [rcvd EXCEPT ![e] = Append(@, m)]
      BY <3>2, <3>3 DEF Receive
    <3> QED
      BY <1>1, <2>1, <3>4
  <2> QED
    BY <2>3, <2>4, <2>5, Zenon
<1>7. ASSUME NEW e \in Ends, ReadTimeout(e)
      PROVE  /\ closeSent'[d] = closeSent[d] /\ closeCode'[d] = closeCode[d] /\ sent'[d] = sent[d]
             /\ UNCHANGED <<rcvd, closeRcvd>>
  BY <1>1, <1>2, <1>7 DEF ReadTimeout
<1>8. ASSUME NEW e \in Ends, RemoteClosed(e)
      PROVE  /\ closeSent'[d] = closeSent[d] /\ closeCode'[d] = closeCode[d]
             /\ UNCHANGED <<sent, rcvd, closeRcvd>>
  BY <1>1, <1>8 DEF RemoteClosed, Flags
<1>9. ASSUME RawSend
      PROVE  UNCHANGED <<closeSent, closeCode, rcvd, closeRcvd>> /\ sent'[d] = sent[d]
  <2>1. d # "client"
    BY <1>9 DEF RawSend, QtEnds
  <2> QED
    BY <1>1, <1>9, <2>1 DEF RawSend
<1>10. ASSUME RawClose \/ UNCHANGED vars
       PROVE  UNCHANGED <<closeSent, closeCode, sent, rcvd, closeRcvd>>
  BY <1>10 DEF RawClose, vars
<1> QED
  BY <1>3, <1>4, <1>5, <1>6, <1>7, <1>8, <1>9, <1>10, Zenon DEF Next

-----------------------------------------------------------------------------
(* The steps.                                                              *)

\* What the steps of one end leave alone at the other.
LEMMA FlowSame ==
    ASSUME NEW x, NEW d, d = Other(x), Flow(x), kind' = kind, raw' = raw,
           state'[d] = state[d], sent'[d] = sent[d], closeSent'[d] = closeSent[d],
           closeCode'[d] = closeCode[d], reader'[x] = reader[x], processor'[x] = processor[x],
           rcvd'[x] = rcvd[x], net'[x] = net[x]
    PROVE  Flow(x)'
BY DEF Flow

LEMMA InitInv == Init => StreamInv
<1> SUFFICES ASSUME Init PROVE StreamInv
  OBVIOUS
<1>1. PeersInv
  BY PeersInit
<1>2. StreamTyped
  <2>1. \A S : <<>> \in Seq(S)
    OBVIOUS
  <2> DEFINE none == <<>>
  <2>2. /\ none \in Seq(Msgs) /\ none \in Seq(Bytes) /\ none \in Seq(Wire)
    BY <2>1
  <2>3. /\ sent = [e \in Ends |-> none] /\ rcvd = [e \in Ends |-> none]
        /\ net = [e \in Ends |-> none] /\ raw = none
        /\ processor = [e \in Ends |-> NewProcessor]
        /\ closeCode = [e \in Ends |-> CloseCodeNormal]
    BY DEF Init
  <2>4. CloseCodeNormal \in Nat /\ net["client"] = <<>>
    BY <2>3, EndsAre DEF CloseCodeNormal, Ends
  <2> HIDE DEF none, Msgs, Bytes, Wire
  <2> QED
    BY <2>2, <2>3, <2>4 DEF StreamTyped
<1>3. Flows
  <2> SUFFICES ASSUME NEW x \in QtEnds PROVE Flow(x)
    BY DEF Flows
  <2>1. x \in Ends /\ Other(x) \in Ends
    BY EndsAre
  <2> DEFINE none == <<>>
  <2>2. /\ state[Other(x)] = "Connected" /\ sent[Other(x)] = none /\ raw = none
        /\ reader[x] = NewReader(none) /\ processor[x] = NewProcessor
        /\ rcvd[x] = none /\ net[x] = none
    BY <2>1 DEF Init
  <2>3. none = <<>>
    OBVIOUS
  <2> HIDE DEF none
  <2>4. FlowOf(kind, "Connected", none, closeSent[Other(x)], closeCode[Other(x)], none,
               NewReader(none), NewProcessor, none, none)
    BY <2>3, FlowStarts
  <2> QED
    BY <2>2, <2>4 DEF Flow
<1>4. Dones
  BY DEF Init, Dones, Done
<1>5. Blamed
  <2>1. closeCode["server"] = CloseCodeNormal
    BY EndsAre DEF Init
  <2> QED
    BY <2>1 DEF Blamed, FailureCodes, CloseCodeNormal, CloseCodeProtocolError,
                CloseCodeWrongDatatype, CloseCodeTooMuchData
<1>6. RawPeer
  <2> DEFINE none == <<>>
  <2>1. ~inside["client"] /\ sent["client"] = none /\ raw = none
    BY EndsAre DEF Init
  <2>2. none = <<>>
    OBVIOUS
  <2> HIDE DEF none
  <2> QED
    BY <2>1, <2>2, NoMessages DEF RawPeer
<1> QED
  BY <1>1, <1>2, <1>3, <1>4, <1>5, <1>6 DEF StreamInv

\* What the steps of an end do to the flow towards its peer.
LEMMA FlowsOf ==
    ASSUME StreamInv, NEW e \in Ends, kind' = kind,
           e \in QtEnds /\ Open(e)' => Flow(e)',
           Other(e) \in QtEnds /\ Open(Other(e))' => Flow(Other(e))'
    PROVE  Flows'
<1>1. QtEnds' = QtEnds /\ QtEnds \subseteq Ends
  BY QtEndsKept, EndsAre
<1>2. \A x \in QtEnds : Open(x)' => Flow(x)'
  BY <1>1, OtherIs
<1> QED
  BY <1>1, <1>2 DEF Flows

LEMMA SendFlows ==
    ASSUME StreamInv, NEW e \in Ends, SendMessage(e)
    PROVE  StreamTyped' /\ Flows'
<1> DEFINE d == Other(e)
<1>1. /\ e \in QtEnds /\ Open(e) /\ state[e] = "Connected"
      /\ UNCHANGED <<kind, state, reader, processor, closeSent, closeCode, rcvd, raw>>
  BY DEF SendMessage, Free, Open
<1>2. PICK m \in Messages : net' = Written(e, doWriteFrames(e, m))
                            /\ sent' = [sent EXCEPT ![e] = Append(@, m)]
  BY DEF SendMessage
<1>3. d \in Ends /\ d # e /\ Other(d) = e
  BY OtherIs
<1> DEFINE bytes == Spoken(m, Key(e))
<1>4. net' = Written(e, bytes)
  BY <1>2 DEF doWriteFrames, Spoken
<1>5. m \in Msgs
  BY MessageIs
<1>6. bytes \in Seq(Bytes)
  <2>1. Key(e) \in {0, 1}
    BY KeyIs
  <2> QED
    BY <2>1, SpokenBytes
<1>7. net \in [Ends -> Seq(Bytes)] /\ sent \in [Ends -> Seq(Msgs)] /\ kind \in {"qt", "raw"}
  BY DEF StreamInv, StreamTyped, PeersInv, PeersTyped
<1> HIDE DEF bytes
<1>8. /\ net' \in [Ends -> Seq(Bytes)] /\ net'[e] = net[e]
      /\ net'[d] = IF Open(e) /\ d \in QtEnds THEN Join(net[d], bytes) ELSE net[d]
      /\ d \notin QtEnds => net' = net
  BY <1>4, <1>6, <1>7, WrittenIs
<1>9. sent'[e] = Append(sent[e], m) /\ sent'[d] = sent[d] /\ sent' \in [Ends -> Seq(Msgs)]
  <2> HIDE DEF Msgs
  <2> QED
    BY <1>2, <1>3, <1>5, <1>7
<1>10. kind = "raw" => net'["client"] = <<>>
  <2>1. kind = "raw" => d \notin QtEnds
    BY <1>1, <1>3 DEF QtEnds, Ends
  <2> QED
    BY <1>8, <2>1 DEF StreamInv, StreamTyped
<1>11. StreamTyped'
  BY <1>1, <1>8, <1>9, <1>10 DEF StreamInv, StreamTyped
<1>12. ASSUME Open(e)'
       PROVE  Flow(e)'
  <2>1. Flow(e)
    BY <1>1 DEF StreamInv, Flows
  <2> QED
    BY <1>1, <1>8, <1>9, <2>1, FlowSame
<1>13. ASSUME d \in QtEnds, Open(d)'
       PROVE  Flow(d)'
  <2>1. kind = "qt"
    BY <1>1, <1>7, <1>13, BothQt
  <2>2. Flow(d)
    BY <1>1, <1>13 DEF StreamInv, Flows, Open
  <2>3. FlowOf("qt", "Connected", sent[e], closeSent[e], closeCode[e], raw, reader[d],
               processor[d], rcvd[d], net[d])
    BY <1>1, <1>3, <2>1, <2>2 DEF Flow
  <2>4. sent[e] \in Seq(Msgs) /\ net[d] \in Seq(Bytes)
    BY <1>3, <1>7
  <2>5. FlowOf("qt", "Connected", Append(sent[e], m), closeSent[e], closeCode[e], raw, reader[d],
               processor[d], rcvd[d], Join(net[d], bytes))
    BY <2>3, <2>4, KeyIs, WritesMessage DEF bytes
  <2> HIDE DEF d
  <2>6. /\ Flow(d)' <=> FlowOf(kind', state'[e], sent'[e], closeSent'[e], closeCode'[e], raw',
                               reader'[d], processor'[d], rcvd'[d], net'[d])
    BY <1>3 DEF Flow
  <2> QED
    BY <1>1, <1>8, <1>9, <1>13, <2>1, <2>5, <2>6
<1> QED
  BY <1>1, <1>11, <1>12, <1>13, FlowsOf

LEMMA PingFlows ==
    ASSUME StreamInv, NEW e \in Ends, NEW op \in {"ping", "pong"}, NEW values \in Seq(Nat),
           Len(values) <= Len7, e \in QtEnds, Open(e),
           net' = Written(e, FrameBytes(op, values, Key(e), TRUE)),
           UNCHANGED <<kind, state, closeSent, closeCode, sent, raw>>
    PROVE  /\ net' \in [Ends -> Seq(Bytes)] /\ net'[e] = net[e]
           /\ kind = "raw" => net'["client"] = <<>>
           /\ /\ Other(e) \in QtEnds /\ Open(Other(e)) /\ reader'[Other(e)] = reader[Other(e)]
              /\ processor'[Other(e)] = processor[Other(e)] /\ rcvd'[Other(e)] = rcvd[Other(e)]
              => Flow(Other(e))'
<1> DEFINE d == Other(e)
           bytes == FrameBytes(op, values, Key(e), TRUE)
<1>1. d \in Ends /\ d # e /\ Other(d) = e /\ state[e] = "Connected"
  BY OtherIs DEF Open
<1>2. bytes \in Seq(Bytes)
  <2> DEFINE fn == TRUE
             key == Key(e)
             f == AsFrame(op, values, key, fn)
  <2>1. op \in Opcodes /\ fn \in BOOLEAN /\ key \in {0, 1}
    BY KeyIs DEF Opcodes, Control
  <2> HIDE DEF fn, key, f
  <2>2. f = AsFrame(op, values, key, fn)
    BY DEF f
  <2>3. f \in Wire /\ RawBytes(f) = FrameBytes(op, values, key, fn)
    BY <2>1, <2>2, WrittenIsRaw
  <2>4. RawBytes(f) \in Seq(Bytes)
    BY <2>3, RawType
  <2> QED
    BY <2>3, <2>4 DEF fn, key
<1>3. net \in [Ends -> Seq(Bytes)] /\ sent \in [Ends -> Seq(Msgs)] /\ kind \in {"qt", "raw"}
  BY DEF StreamInv, StreamTyped, PeersInv, PeersTyped
<1>4. net' = Written(e, bytes)
  OBVIOUS
<1> HIDE DEF bytes
<1>5. /\ net' \in [Ends -> Seq(Bytes)] /\ net'[e] = net[e]
      /\ net'[d] = IF Open(e) /\ d \in QtEnds THEN Join(net[d], bytes) ELSE net[d]
      /\ d \notin QtEnds => net' = net
  BY <1>2, <1>3, <1>4, WrittenIs
<1>6. kind = "raw" => net'["client"] = <<>>
  <2>1. kind = "raw" => d \notin QtEnds
    BY <1>1 DEF QtEnds, Ends
  <2> QED
    BY <1>5, <2>1 DEF StreamInv, StreamTyped
<1>7. ASSUME d \in QtEnds, Open(d), reader'[d] = reader[d],
             processor'[d] = processor[d], rcvd'[d] = rcvd[d]
      PROVE  Flow(d)'
  <2>1. kind = "qt"
    BY <1>3, <1>7, BothQt
  <2>2. Flow(d)
    BY <1>7 DEF StreamInv, Flows
  <2>3. FlowOf("qt", "Connected", sent[e], closeSent[e], closeCode[e], raw, reader[d],
               processor[d], rcvd[d], net[d])
    BY <1>1, <2>1, <2>2 DEF Flow
  <2>4. sent[e] \in Seq(Msgs) /\ net[d] \in Seq(Bytes)
    BY <1>1, <1>3
  <2>5. FlowOf("qt", "Connected", sent[e], closeSent[e], closeCode[e], raw, reader[d],
               processor[d], rcvd[d], Join(net[d], bytes))
    BY <2>3, <2>4, KeyIs, WritesControl DEF bytes
  <2> HIDE DEF d
  <2>6. /\ Flow(d)' <=> FlowOf(kind', state'[e], sent'[e], closeSent'[e], closeCode'[e], raw',
                               reader'[d], processor'[d], rcvd'[d], net'[d])
    BY <1>1 DEF Flow
  <2> QED
    BY <1>1, <1>5, <1>7, <2>1, <2>5, <2>6
<1> QED
  BY <1>5, <1>6, <1>7

LEMMA ProcessorStep ==
    ASSUME processor = [e \in Ends |-> processor[e]], NEW e \in Ends, NEW p,
           processor' = [processor EXCEPT ![e] = p]
    PROVE  /\ processor' = [x \in Ends |-> processor'[x]]
           /\ processor'[e] = p /\ processor'[Other(e)] = processor[Other(e)]
<1>1. Other(e) \in Ends /\ Other(e) # e
  BY OtherIs
<1> QED
  BY <1>1

LEMMA CloseFlows ==
    ASSUME StreamInv, NEW e \in QtEnds, ~closeSent[e],
           NEW code \in Nat, NEW reason \in Seq(Nat), LegalText(reason, TRUE),
           CloseSocket(e, code, reason), UNCHANGED <<kind, raw, sent, rcvd>>,
           processor' = [x \in Ends |-> processor'[x]],
           processor'[Other(e)] = processor[Other(e)]
    PROVE  /\ StreamTyped' /\ Flows' /\ closeCode'[e] = code
           /\ closeCode'[Other(e)] = closeCode[Other(e)]
<1> DEFINE d == Other(e)
           key == Key(e)
           bytes == ClosingBytes(code, reason, key)
           cs == closeSent[e]
<1>1. e \in Ends /\ d \in Ends /\ d # e /\ Other(d) = e
  BY EndsAre, OtherIs
<1>2. /\ net \in [Ends -> Seq(Bytes)] /\ sent \in [Ends -> Seq(Msgs)] /\ kind \in {"qt", "raw"}
      /\ closeCode \in [Ends -> Nat] /\ closeSent \in Flags /\ state \in [Ends -> States]
      /\ reader = [x \in Ends |-> reader[x]]
  BY DEF StreamInv, StreamTyped, PeersInv, PeersTyped, ReadersKnown
<1>16. PICK tail : ClosingWrites(e, code, reason, tail)
  BY <1>1, ClosingIs
<1>3. LastIs(tail, key) /\ net' = Written(e, Join(bytes, tail))
  BY <1>16 DEF ClosingWrites
<1>17. key \in {0, 1} /\ ~cs
  BY KeyIs
<1>4. /\ closeSent'[e] /\ closeSent'[d] = closeSent[d]
      /\ closeCode' \in [Ends -> Nat] /\ closeCode'[e] = code /\ closeCode'[d] = closeCode[d]
      /\ state'[e] # "Connected" /\ state'[d] = state[d] /\ reader'[d] = reader[d]
  BY <1>1, <1>2 DEF CloseSocket, StateAfterClose, Flags
<1>5. tail \in Seq(Bytes)
  <2>1. PICK t \in Seq(Wire) : BytesOf(t) = tail
    BY <1>3, <1>17, LastFrames
  <2> QED
    BY <2>1, RawsType
<1>6. bytes \in Seq(Bytes)
  BY <1>17, ClosingBytesType
<1> DEFINE all == Join(bytes, tail)
<1>7. bytes = ClosingBytes(code, reason, key)
  OBVIOUS
<1> HIDE DEF bytes, key, cs
<1>8. all \in Seq(Bytes)
  BY <1>5, <1>6, JoinAssoc
<1>9. net' = Written(e, all)
  BY <1>3
<1> HIDE DEF all
<1>10. /\ net' \in [Ends -> Seq(Bytes)] /\ net'[e] = net[e]
       /\ net'[d] = IF Open(e) /\ d \in QtEnds THEN Join(net[d], all) ELSE net[d]
       /\ d \notin QtEnds => net' = net
  BY <1>1, <1>2, <1>8, <1>9, WrittenIs
<1>12. kind = "raw" => net'["client"] = <<>>
  <2>1. kind = "raw" => d \notin QtEnds
    BY <1>1 DEF QtEnds, Ends
  <2> QED
    BY <1>10, <2>1 DEF StreamInv, StreamTyped
<1>13. StreamTyped'
  BY <1>4, <1>10, <1>12 DEF StreamInv, StreamTyped
<1>14. ASSUME d \in QtEnds, Open(d)'
       PROVE  Flow(d)'
  <2>1. kind = "qt"
    BY <1>2, <1>14, BothQt
  <2>2. Flow(d)
    BY <1>4, <1>14 DEF StreamInv, Flows, Open
  <2>3. sent[e] \in Seq(Msgs) /\ net[d] \in Seq(Bytes)
    BY <1>1, <1>2
  <2>4. FlowOf(kind, state[e], sent[e], closeSent[e], closeCode[e], raw, reader[d],
               processor[d], rcvd[d], net[d])
    BY <1>1, <2>2 DEF Flow
  <2>5. FlowOf(kind, state'[e], sent'[e], closeSent'[e], code, raw, reader[d],
               processor[d], rcvd[d], net'[d])
    <3> DEFINE st2 == state'[e]
               cs2 == closeSent'[e]
    <3>1. st2 # "Connected" /\ cs2
      BY <1>4
    <3> HIDE DEF d, st2, cs2
    <3>2. CASE Open(e)
      <4>1. FlowOf("qt", "Connected", sent[e], cs, closeCode[e], raw, reader[d],
                   processor[d], rcvd[d], net[d])
        BY <2>1, <2>4, <3>2 DEF Open, cs
      <4>2. FlowOf("qt", st2, sent[e], cs2, code, raw, reader[d],
                   processor[d], rcvd[d], Join(net[d], Join(bytes, tail)))
        BY <1>3, <1>7, <1>17, <2>3, <3>1, <4>1, WritesClose
      <4> QED
        BY <1>10, <1>14, <2>1, <3>2, <4>2 DEF all, st2, cs2
    <3>3. CASE ~Open(e)
      <4>1. net'[d] = net[d]
        BY <1>10, <3>3
      <4> DEFINE none == <<>>
      <4>3. net[d] = Join(net[d], none) /\ none \in Seq(Bytes) /\ none = <<>>
        BY <2>3, JoinNone, BytesNone
      <4> HIDE DEF none
      <4>4. FlowOf(kind, st2, sent[e], cs2, code, raw, reader[d], processor[d], rcvd[d], net[d])
        <5> DEFINE old == net[d]
                   st == state[e]
        <5>1. FlowOf(kind, st, sent[e], cs, closeCode[e], raw, reader[d],
                     processor[d], rcvd[d], old)
          BY <2>4 DEF cs
        <5>2. old = Join(net[d], none)
          BY <4>3
        <5>3. cs => cs2 /\ code = closeCode[e]
          BY <1>17
        <5>4. st2 = "Connected" => st = "Connected"
          BY <3>1
        <5> HIDE DEF old, st
        <5> QED
          BY <2>3, <3>1, <4>3, <5>1, <5>2, <5>3, <5>4, FlowKept
      <4> QED
        BY <4>1, <4>4 DEF st2, cs2
    <3> QED
      BY <3>2, <3>3
  <2> HIDE DEF d
  <2>6. /\ Flow(d)' <=> FlowOf(kind', state'[e], sent'[e], closeSent'[e], closeCode'[e], raw',
                               reader'[d], processor'[d], rcvd'[d], net'[d])
    BY <1>1 DEF Flow
  <2> QED
    BY <1>4, <2>5, <2>6 DEF d
<1>15. Flows'
  <2>1. ~Open(e)'
    BY <1>4 DEF Open
  <2> QED
    BY <1>1, <1>14, <2>1, FlowsOf
<1> QED
  BY <1>4, <1>13, <1>15

LEMMA AbortFlows ==
    ASSUME StreamInv, NEW e \in Ends, Abort(e)
    PROVE  StreamTyped' /\ Flows'
<1> DEFINE d == Other(e)
<1>1. e \in QtEnds /\ d \in Ends /\ d # e /\ Other(d) = e
  BY OtherIs DEF Abort, Free
<1>2. /\ net \in [Ends -> Seq(Bytes)] /\ state \in [Ends -> States] /\ kind \in {"qt", "raw"}
      /\ reader = [x \in Ends |-> reader[x]]
  BY DEF StreamInv, StreamTyped, PeersInv, PeersTyped, ReadersKnown
<1>3. PICK k \in 0..Len(net[d]) : net' = [net EXCEPT ![d] = SubSeq(@, 1, k)]
  BY DEF Abort
<1> DEFINE front == SubSeq(net[d], 1, k)
           back == SubSeq(net[d], k + 1, Len(net[d]))
<1>4. front \in Seq(Bytes) /\ back \in Seq(Bytes) /\ net[d] = Join(front, back)
  <2>1. ASSUME NEW n \in Seq(Bytes), NEW i \in 0..Len(n)
        PROVE  /\ SubSeq(n, 1, i) \in Seq(Bytes) /\ SubSeq(n, i + 1, Len(n)) \in Seq(Bytes)
               /\ n = SubSeq(n, 1, i) \o SubSeq(n, i + 1, Len(n))
    <3> DEFINE a == SubSeq(n, 1, i)
               b == SubSeq(n, i + 1, Len(n))
    <3>1. i \in Nat /\ Len(n) \in Nat /\ i <= Len(n) /\ Len(n) <= Len(n)
      OBVIOUS
    <3>2. /\ a \in Seq(Bytes) /\ Len(a) = i /\ \A j \in 1..i : a[j] = n[j]
          /\ b \in Seq(Bytes) /\ Len(b) = Len(n) - i /\ \A j \in 1..(Len(n) - i) : b[j] = n[i + j]
      BY <3>1, FrontIs, MiddleIs
    <3> HIDE DEF a, b
    <3>3. /\ a \o b \in Seq(Bytes) /\ Len(a \o b) = Len(n)
          /\ \A j \in 1..i : (a \o b)[j] = n[j]
          /\ \A j \in 1..(Len(n) - i) : (a \o b)[i + j] = n[i + j]
      BY <3>1, <3>2, JoinIs
    <3>4. \A j \in 1..Len(n) : (a \o b)[j] = n[j]
      <4> SUFFICES ASSUME NEW j \in 1..Len(n) PROVE (a \o b)[j] = n[j]
        OBVIOUS
      <4>3. j <= i \/ j > i
        BY <3>1
      <4>1. CASE j <= i
        BY <3>1, <3>3, <4>1
      <4>2. CASE j > i
        <5>1. j - i \in 1..(Len(n) - i) /\ i + (j - i) = j
          BY <3>1, <4>2
        <5> QED
          BY <3>3, <5>1
      <4> QED
        BY <4>1, <4>2, <4>3
    <3>5. n = a \o b
      BY <3>3, <3>4, SameSeq
    <3> QED
      BY <3>2, <3>5 DEF a, b
  <2>2. net[d] \in Seq(Bytes)
    BY <1>1, <1>2
  <2> QED
    BY <2>1, <2>2 DEF Join
<1> HIDE DEF front, back
<1>5. net' = [net EXCEPT ![d] = front]
  BY <1>3 DEF front
<1>6. net' \in [Ends -> Seq(Bytes)] /\ net'[d] = front /\ net'[e] = net[e]
  <2> HIDE DEF Bytes
  <2> QED
    BY <1>1, <1>2, <1>4, <1>5
<1>7. /\ state'[e] # "Connected" /\ state'[d] = state[d] /\ reader'[d] = reader[d]
      /\ UNCHANGED <<kind, processor, closeSent, closeCode, sent, rcvd, raw>>
  BY <1>1, <1>2 DEF Abort
<1>8. kind = "raw" => net'["client"] = <<>>
  <2> SUFFICES ASSUME kind = "raw" PROVE net'["client"] = <<>>
    OBVIOUS
  <2>1. e = "server" /\ d = "client"
    BY <1>1 DEF QtEnds, Other
  <2>2. net[d] = <<>>
    BY <2>1 DEF StreamInv, StreamTyped
  <2>3. Len(front) = 0
    <3>1. Join(front, back) = <<>>
      BY <1>4, <2>2
    <3>2. Len(Join(front, back)) = Len(front) + Len(back) /\ Len(front) \in Nat /\ Len(back) \in Nat
      BY <1>4, JoinLen
    <3> QED
      BY <3>1, <3>2
  <2>4. front = <<>>
    <3> HIDE DEF Bytes
    <3> QED
      BY <1>4, <2>3
  <2> QED
    BY <1>6, <2>1, <2>4
<1>9. StreamTyped'
  BY <1>6, <1>7, <1>8 DEF StreamInv, StreamTyped
<1>10. ASSUME d \in QtEnds, Open(d)'
       PROVE  Flow(d)'
  <2>1. Flow(d)
    BY <1>7, <1>10 DEF StreamInv, Flows, Open
  <2>2. FlowOf(kind, state[e], sent[e], closeSent[e], closeCode[e], raw, reader[d],
               processor[d], rcvd[d], net[d])
    BY <1>1, <2>1 DEF Flow
  <2> DEFINE st2 == state'[e]
  <2>3. st2 # "Connected"
    BY <1>7
  <2> HIDE DEF d, st2
  <2>4. FlowOf(kind, st2, sent[e], closeSent[e], closeCode[e], raw, reader[d],
               processor[d], rcvd[d], front)
    BY <1>4, <2>2, <2>3, FlowKept
  <2>5. /\ Flow(d)' <=> FlowOf(kind', state'[e], sent'[e], closeSent'[e], closeCode'[e], raw',
                               reader'[d], processor'[d], rcvd'[d], net'[d])
    BY <1>1 DEF Flow
  <2> QED
    BY <1>6, <1>7, <2>4, <2>5 DEF st2
<1>11. Flows'
  <2>1. ~Open(e)'
    BY <1>7 DEF Open
  <2> QED
    BY <1>1, <1>7, <1>10, <2>1, FlowsOf
<1> QED
  BY <1>9, <1>11

\* An end whose peer closes, or whose peer's bytes are cut off.
LEMMA KeptFlows ==
    ASSUME NEW d \in Ends, NEW e \in Ends, e = Other(d), Flow(d),
           kind' = kind, raw' = raw, reader'[d] = reader[d], processor'[d] = processor[d],
           rcvd'[d] = rcvd[d], sent'[e] = sent[e],
           state'[e] = "Connected" => state[e] = "Connected",
           closeSent[e] => closeSent'[e] /\ closeCode'[e] = closeCode[e],
           NEW w \in Seq(Bytes), NEW nt \in Seq(Bytes), net[d] = Join(nt, w), net'[d] = nt,
           state'[e] = "Connected" => w = <<>>
    PROVE  Flow(d)'
<1> DEFINE st == state[e]
           st2 == state'[e]
           cs == closeSent[e]
           cs2 == closeSent'[e]
           cc == closeCode[e]
           cc2 == closeCode'[e]
           old == net[d]
<1>1. FlowOf(kind, st, sent[e], cs, cc, raw, reader[d], processor[d], rcvd[d], old)
  BY DEF Flow
<1>2. /\ cs => cs2 /\ cc2 = cc
      /\ st2 = "Connected" => st = "Connected"
      /\ st2 = "Connected" => w = <<>>
      /\ old = Join(nt, w)
  OBVIOUS
<1>3. /\ Flow(d)' <=> FlowOf(kind', state'[e], sent'[e], closeSent'[e], closeCode'[e], raw',
                             reader'[d], processor'[d], rcvd'[d], net'[d])
  BY DEF Flow
<1> HIDE DEF st, st2, cs, cs2, cc, cc2, old
<1>4. FlowOf(kind, st2, sent[e], cs2, cc2, raw, reader[d], processor[d], rcvd[d], nt)
  BY <1>1, <1>2, FlowKept
<1> QED
  BY <1>3, <1>4 DEF st2, cs2, cc2

LEMMA NothingCut ==
    ASSUME NEW n \in Seq(Bytes)
    PROVE  n = Join(n, <<>>) /\ n = Join(<<>>, n) /\ <<>> \in Seq(Bytes)
BY JoinNone, BytesNone

LEMMA DeliverFlows ==
    ASSUME StreamInv, NEW e \in Ends, Deliver(e)
    PROVE  StreamTyped' /\ Flows'
<1> DEFINE d == Other(e)
<1>1. d \in Ends /\ d # e /\ Other(d) = e
  BY OtherIs
<1>2. /\ net \in [Ends -> Seq(Bytes)] /\ kind \in {"qt", "raw"}
      /\ reader = [x \in Ends |-> reader[x]]
  BY DEF StreamInv, StreamTyped, PeersInv, PeersTyped, ReadersKnown
<1>3. /\ net[e] # <<>>
      /\ UNCHANGED <<kind, state, processor, closeSent, closeCode, sent, rcvd, raw>>
  BY DEF Deliver
<1>4. e \in QtEnds
  <2>1. kind = "raw" => e # "client"
    BY <1>3 DEF StreamInv, StreamTyped
  <2> QED
    BY <1>2, <2>1 DEF QtEnds, Ends
<1> DEFINE old == net[e]
           byte == Head(old)
           rest == Tail(old)
<1>5. old \in Seq(Bytes) /\ rest \in Seq(Bytes)
  <2>1. old \in Seq(Bytes) /\ old # <<>>
    BY <1>2, <1>3
  <2> HIDE DEF old, Bytes
  <2> QED
    BY <2>1
<1>6. CASE Open(e)
  <2>1. reader' = [reader EXCEPT ![e].in = Append(@, byte)] /\ net' = [net EXCEPT ![e] = rest]
    BY <1>4, <1>6 DEF Deliver
  <2>2. /\ reader'[e] = [reader[e] EXCEPT !.in = Append(@, byte)] /\ reader'[d] = reader[d]
    BY <1>1, <1>2, <2>1
  <2>3. net' \in [Ends -> Seq(Bytes)] /\ net'[e] = rest /\ net'[d] = net[d]
    <3> HIDE DEF rest, Bytes
    <3> QED
      BY <1>1, <1>2, <1>5, <2>1
  <2>4. kind = "raw" => net'["client"] = <<>>
    <3>1. kind = "raw" => d = "client"
      BY <1>1, <1>4 DEF QtEnds, Ends
    <3> QED
      BY <2>3, <3>1 DEF StreamInv, StreamTyped
  <2>5. StreamTyped'
    BY <1>3, <2>3, <2>4 DEF StreamInv, StreamTyped
  <2>6. Flow(e)'
    <3>1. Flow(e)
      BY <1>4, <1>6 DEF StreamInv, Flows
    <3>2. FlowOf(kind, state[d], sent[d], closeSent[d], closeCode[d], raw, reader[e],
                 processor[e], rcvd[e], old)
      BY <3>1 DEF Flow
    <3>3. reader'[e] = [reader[e] EXCEPT !.in = Append(@, Head(old))] /\ old # <<>>
      BY <1>3, <2>2
    <3> DEFINE rd2 == reader'[e]
    <3>4. rd2 = [reader[e] EXCEPT !.in = Append(@, Head(old))]
      BY <3>3
    <3> HIDE DEF rd2, old
    <3>5. FlowOf(kind, state[d], sent[d], closeSent[d], closeCode[d], raw, rd2,
                 processor[e], rcvd[e], Tail(old))
      BY <1>5, <3>2, <3>3, <3>4, FlowArrives
    <3>6. /\ Flow(e)' <=> FlowOf(kind', state'[d], sent'[d], closeSent'[d], closeCode'[d], raw',
                                 reader'[e], processor'[e], rcvd'[e], net'[e])
      BY DEF Flow
    <3> QED
      BY <1>3, <2>3, <3>5, <3>6 DEF rd2
  <2>7. ASSUME d \in QtEnds, Open(d)'
        PROVE  Flow(d)'
    <3>1. Flow(d)
      BY <1>3, <2>7 DEF StreamInv, Flows, Open
    <3> HIDE DEF d
    <3> QED
      BY <1>1, <1>3, <2>2, <2>3, <3>1, FlowSame
  <2> QED
    BY <1>3, <2>5, <2>6, <2>7, FlowsOf
<1>7. CASE ~Open(e)
  <2>1. /\ reader' = reader
        /\ net' = [net EXCEPT ![e] = <<>>] \/ net' = [x \in Ends |-> <<>>]
    BY <1>7 DEF Deliver
  <2>2. /\ net' \in [Ends -> Seq(Bytes)] /\ (net'[d] = net[d] \/ net'[d] = <<>>)
        /\ kind = "raw" => net'["client"] = <<>>
    <3>1. <<>> \in Seq(Bytes)
      BY BytesNone
    <3>2. kind = "raw" => net["client"] = <<>> /\ "client" \in Ends
      BY DEF StreamInv, StreamTyped, Ends
    <3> HIDE DEF Bytes
    <3> QED
      BY <1>1, <1>2, <2>1, <3>1, <3>2
  <2>3. StreamTyped'
    BY <1>3, <2>2 DEF StreamInv, StreamTyped
  <2>4. ASSUME d \in QtEnds, Open(d)'
        PROVE  Flow(d)'
    <3>1. Flow(d)
      BY <1>3, <2>4 DEF StreamInv, Flows, Open
    <3>2. net[d] \in Seq(Bytes)
      BY <1>1, <1>2
    <3>3. PICK w \in Seq(Bytes), nt \in Seq(Bytes) : net[d] = Join(nt, w) /\ net'[d] = nt
      BY <2>2, <3>2, NothingCut
    <3>4. state'[e] # "Connected"
      BY <1>3, <1>7 DEF Open
    <3> HIDE DEF d
    <3> QED
      BY <1>1, <1>3, <2>1, <3>1, <3>3, <3>4, KeptFlows
  <2>5. ~Open(e)'
    BY <1>3, <1>7 DEF Open
  <2> QED
    BY <1>3, <2>3, <2>4, <2>5, FlowsOf
<1> QED
  BY <1>6, <1>7

LEMMA LeaveFlows ==
    ASSUME StreamInv, NEW e \in Ends, UNCHANGED <<kind, closeRcvd, net, sent, rcvd, raw>>,
           state' = [state EXCEPT ![e] = "Unconnected"],
           processor' = [x \in Ends |-> processor'[x]],
           processor'[Other(e)] = processor[Other(e)],
           closeCode' \in [Ends -> Nat], reader'[Other(e)] = reader[Other(e)],
           closeSent[e] => closeSent'[e] /\ closeCode'[e] = closeCode[e]
    PROVE  StreamTyped' /\ Flows'
<1> DEFINE d == Other(e)
<1>1. d \in Ends /\ d # e /\ Other(d) = e
  BY OtherIs
<1>2. /\ net \in [Ends -> Seq(Bytes)] /\ kind \in {"qt", "raw"} /\ state \in [Ends -> States]
  BY DEF StreamInv, StreamTyped, PeersInv, PeersTyped
<1>3. StreamTyped'
  BY DEF StreamInv, StreamTyped
<1>4. state'[e] # "Connected" /\ state'[d] = state[d]
  BY <1>1, <1>2
<1>5. ASSUME d \in QtEnds, Open(d)'
      PROVE  Flow(d)'
  <2>1. Flow(d)
    BY <1>4, <1>5 DEF StreamInv, Flows, Open
  <2>2. net[d] \in Seq(Bytes)
    BY <1>1, <1>2
  <2>3. PICK w \in Seq(Bytes), nt \in Seq(Bytes) : net[d] = Join(nt, w) /\ net'[d] = nt
    BY <2>2, NothingCut
  <2>4. processor'[d] = processor[d] /\ reader'[d] = reader[d]
    OBVIOUS
  <2> HIDE DEF d
  <2> QED
    BY <1>1, <1>4, <2>1, <2>3, <2>4, KeptFlows
<1>6. ~Open(e)'
  BY <1>4 DEF Open
<1> QED
  BY <1>3, <1>5, <1>6, FlowsOf

LEMMA ClosedFlows ==
    ASSUME StreamInv, NEW e \in Ends, Closed(e)
    PROVE  StreamTyped' /\ Flows'
<1>1. /\ processor = [x \in Ends |-> processor[x]] /\ closeCode \in [Ends -> Nat]
  BY DEF StreamInv, StreamTyped
<1>2. /\ UNCHANGED <<kind, closeRcvd, net, sent, rcvd, raw, processor, closeSent, closeCode, reader>>
      /\ state' = [state EXCEPT ![e] = "Unconnected"]
  BY DEF Closed
<1> QED
  BY <1>1, <1>2, LeaveFlows

LEMMA RemoteClosedFlows ==
    ASSUME StreamInv, NEW e \in Ends, RemoteClosed(e)
    PROVE  StreamTyped' /\ Flows'
<1>1. /\ processor = [x \in Ends |-> processor[x]] /\ closeCode \in [Ends -> Nat]
      /\ closeSent \in Flags /\ reader = [x \in Ends |-> reader[x]]
  BY DEF StreamInv, StreamTyped, PeersInv, PeersTyped, ReadersKnown
<1>2. Other(e) \in Ends /\ Other(e) # e
  BY OtherIs
<1>3. ~closeSent[e]
  BY DEF RemoteClosed, StreamInv, PeersInv, PeersTypeOK
<1>4. /\ processor' = [x \in Ends |-> processor'[x]]
      /\ processor'[Other(e)] = processor[Other(e)]
  <2>1. processor' = processor \/ processor' = [processor EXCEPT ![e] = clear]
    BY DEF RemoteClosed
  <2> QED
    BY <1>1, <2>1, ProcessorStep
<1>5. closeCode' \in [Ends -> Nat]
  <2>1. closeCode' = closeCode \/ closeCode' = [closeCode EXCEPT ![e] = CloseCodeGoingAway]
    BY DEF RemoteClosed
  <2> QED
    BY <1>1, <2>1 DEF CloseCodeGoingAway
<1>6. reader'[Other(e)] = reader[Other(e)]
  <2>1. reader' = reader \/ reader' = [reader EXCEPT ![e] = NewReader(<<>>)]
    BY DEF RemoteClosed
  <2> QED
    BY <1>1, <1>2, <2>1
<1>7. /\ UNCHANGED <<kind, closeRcvd, net, sent, rcvd, raw>>
      /\ state' = [state EXCEPT ![e] = "Unconnected"]
  BY DEF RemoteClosed
<1> QED
  BY <1>3, <1>4, <1>5, <1>6, <1>7, LeaveFlows

LEMMA RawCloseFlows ==
    ASSUME StreamInv, RawClose
    PROVE  StreamTyped' /\ Flows'
<1>1. /\ processor = [x \in Ends |-> processor[x]] /\ closeCode \in [Ends -> Nat]
      /\ "client" \in Ends
  BY EndsAre DEF StreamInv, StreamTyped
<1>2. /\ UNCHANGED <<kind, closeRcvd, net, sent, rcvd, raw, processor, closeSent, closeCode, reader>>
      /\ state' = [state EXCEPT !["client"] = "Unconnected"]
  BY DEF RawClose
<1> DEFINE e == "client"
<1>3. e \in Ends /\ state' = [state EXCEPT ![e] = "Unconnected"]
  BY <1>1, <1>2
<1> HIDE DEF e
<1> QED
  BY <1>1, <1>2, <1>3, LeaveFlows

LEMMA RawSendFlows ==
    ASSUME StreamInv, RawSend
    PROVE  /\ StreamTyped' /\ Flows'
           /\ \E f \in Wire : raw' = Append(raw, f)
<1>1. /\ kind = "raw" /\ state["client"] = "Connected" /\ QtEnds = {"server"}
      /\ UNCHANGED <<kind, state, reader, processor, closeSent, closeCode, rcvd, closeRcvd>>
  BY DEF RawSend, QtEnds
<1>2. PICK f \in RawFrames :
         /\ net' = [net EXCEPT !["server"] = @ \o RawBytes(f)]
         /\ raw' = Append(raw, f)
         /\ sent' = [sent EXCEPT !["client"] = MessagesOf(raw')]
  BY DEF RawSend
<1>3. f \in Wire
  BY RawFramesAre
<1> DEFINE e == "client"
           d == "server"
<1>4. e \in Ends /\ d \in Ends /\ d # e /\ Other(d) = e /\ Other(e) = d
  BY DEF Ends, Other
<1>5. /\ net \in [Ends -> Seq(Bytes)] /\ sent \in [Ends -> Seq(Msgs)] /\ raw \in Seq(Wire)
      /\ net[e] = <<>>
  BY <1>1 DEF StreamInv, StreamTyped
<1> DEFINE rw2 == raw'
           s2 == MessagesOf(rw2)
           more == Join(net[d], RawBytes(f))
<1>6. rw2 \in Seq(Wire) /\ rw2 = Append(raw, f)
  <2> HIDE DEF Wire
  <2> QED
    BY <1>2, <1>3, <1>5
<1>7. s2 \in Seq(Msgs)
  BY <1>6, WireFrames, GivenType
<1>8. more \in Seq(Bytes)
  BY <1>3, <1>4, <1>5, RawType, JoinAssoc
<1>9. net' = [net EXCEPT ![d] = more] /\ sent' = [sent EXCEPT ![e] = s2]
  BY <1>2 DEF Join
<1> HIDE DEF e, d, more
<1>10. net' \in [Ends -> Seq(Bytes)] /\ net'[e] = <<>> /\ net'[d] = more
  <2> HIDE DEF Bytes
  <2> QED
    BY <1>4, <1>5, <1>8, <1>9
<1>11. sent' \in [Ends -> Seq(Msgs)] /\ sent'[e] = s2
  <2> HIDE DEF Msgs, s2
  <2> QED
    BY <1>4, <1>5, <1>7, <1>9
<1>12. StreamTyped'
  BY <1>1, <1>6, <1>10, <1>11 DEF StreamInv, StreamTyped, e
<1>13. ASSUME d \in QtEnds, Open(d)'
       PROVE  Flow(d)'
  <2>1. Flow(d)
    BY <1>1, <1>13 DEF StreamInv, Flows, Open
  <2>2. FlowOf("raw", "Connected", sent[e], closeSent[e], closeCode[e], raw, reader[d],
               processor[d], rcvd[d], net[d])
    BY <1>1, <1>4, <2>1 DEF Flow, e
  <2>3. net[d] \in Seq(Bytes)
    BY <1>4, <1>5
  <2> HIDE DEF rw2
  <2>4. FlowOf("raw", "Connected", MessagesOf(rw2), closeSent[e], closeCode[e], rw2, reader[d],
               processor[d], rcvd[d], Join(net[d], RawBytes(f)))
    BY <1>3, <1>5, <1>6, <2>2, <2>3, WritesRaw
  <2>5. /\ Flow(d)' <=> FlowOf(kind', state'[e], sent'[e], closeSent'[e], closeCode'[e], raw',
                               reader'[d], processor'[d], rcvd'[d], net'[d])
    BY <1>4 DEF Flow
  <2> QED
    BY <1>1, <1>10, <1>11, <2>4, <2>5 DEF e, more, rw2
<1>14. Flows'
  <2>1. d \in Ends /\ Other(d) = e /\ e \notin QtEnds
    BY <1>1, <1>4 DEF e
  <2> QED
    BY <1>1, <1>13, <2>1, FlowsOf
<1> QED
  BY <1>3, <1>6, <1>12, <1>14

-----------------------------------------------------------------------------
(* processData.                                                            *)

LEMMA ProcessHears ==
    ASSUME StreamInv, NEW e \in QtEnds, Open(e), NEW r, r = readFrame(reader[e]), r.st = "done",
           NEW out, out = processFrame(processor[e], r), NEW d, d = Other(e)
    PROVE  Heard(kind, state[d], sent[d], closeSent[d], closeCode[d], raw, r, out, rcvd[e], net[e])
<1>1. e \in Ends /\ d \in Ends
  BY EndsAre
<1>2. sent[d] \in Seq(Msgs) /\ closeCode[d] \in Nat /\ net[e] \in Seq(Bytes)
  BY <1>1 DEF StreamInv, StreamTyped
<1>3. FlowOf(kind, state[d], sent[d], closeSent[d], closeCode[d], raw, reader[e],
             processor[e], rcvd[e], net[e])
  BY DEF StreamInv, Flows, Flow
<1> QED
  BY <1>2, <1>3, HeardFromPeer

\* What processData does, as far as the flows and the codes go.
ProcessKeeps(e) ==
    /\ StreamTyped' /\ Flows' /\ UNCHANGED <<kind, raw>>
    /\ \A x \in Ends : closeRcvd'[x] /\ ~closeRcvd[x] /\ kind = "qt" =>
          /\ closeSent[Other(x)] /\ closeCode'[x] = AnswerTo(closeCode[Other(x)])
          /\ rcvd'[x] = sent[Other(x)]
    /\ \/ closeCode'["server"] = closeCode["server"]
       \/ kind = "raw" /\ closeCode'["server"] \in FailureCodes =>
             WrongIn(raw, closeCode'["server"])

LEMMA ProcessCloses ==
    ASSUME StreamInv, NEW e \in QtEnds, Open(e), NEW r, r = readFrame(reader[e]), r.st = "done",
           NEW out, out = processFrame(processor[e], r), Closes(out.signal),
           processor' = [processor EXCEPT ![e] = out.p],
           closeRcvd' = [closeRcvd EXCEPT ![e] = @ \/ out.signal.kind = "close"],
           CloseSocket(e, out.signal.code, out.signal.data),
           UNCHANGED <<kind, sent, rcvd, raw>>
    PROVE  ProcessKeeps(e)
<1> DEFINE d == Other(e)
           sg == out.signal
           code == sg.code
           data == sg.data
<1>1. e \in Ends /\ d \in Ends /\ d # e /\ (\A x \in Ends : x = e \/ x = d)
  BY EndsAre, OtherIs
<1>2. /\ processor = [x \in Ends |-> processor[x]] /\ closeRcvd \in Flags /\ ~closeSent[e]
      /\ kind \in {"qt", "raw"}
  BY DEF StreamInv, StreamTyped, PeersInv, PeersTyped, PeersTypeOK
<1>3. /\ HeardClose(kind, state[d], sent[d], closeSent[d], closeCode[d], raw, rcvd[e], sg)
      /\ HeardError(kind, raw, sg)
  BY ProcessHears DEF Heard
<1>4. sg.kind = "close" \/ sg.kind = "error"
  BY DEF Closes
<1>5. code \in Nat /\ data \in Seq(Nat) /\ LegalText(data, TRUE)
  <2>1. CASE sg.kind = "close"
    BY <1>3, <2>1 DEF HeardClose
  <2>2. CASE sg.kind = "error"
    <3>1. code \in FailureCodes /\ data = <<>>
      BY <1>3, <2>2 DEF HeardError
    <3>2. code \in Nat
      BY <3>1 DEF FailureCodes, CloseCodeProtocolError, CloseCodeWrongDatatype,
                  CloseCodeTooMuchData
    <3> QED
      BY <3>1, <3>2 DEF LegalText
  <2> QED
    BY <1>4, <2>1, <2>2
<1>6. processor' = [x \in Ends |-> processor'[x]] /\ processor'[d] = processor[d]
  BY <1>1, <1>2, ProcessorStep
<1>7. CloseSocket(e, code, data)
  OBVIOUS
<1> HIDE DEF code, data
<1>8. /\ StreamTyped' /\ Flows' /\ closeCode'[e] = code
      /\ closeCode'[d] = closeCode[d]
  BY <1>2, <1>5, <1>6, <1>7, CloseFlows
<1>9. ASSUME NEW x \in Ends, closeRcvd'[x], ~closeRcvd[x], kind = "qt"
      PROVE  /\ closeSent[Other(x)] /\ closeCode'[x] = AnswerTo(closeCode[Other(x)])
             /\ rcvd'[x] = sent[Other(x)]
  <2>1. x = e /\ sg.kind = "close"
    BY <1>1, <1>2, <1>9 DEF Flags
  <2>2. /\ closeSent[d] /\ code = AnswerTo(closeCode[d])
        /\ rcvd[e] = sent[d]
    BY <1>3, <1>9, <2>1 DEF HeardClose, code
  <2> QED
    BY <1>8, <2>1, <2>2
<1>10. \/ closeCode'["server"] = closeCode["server"]
       \/ kind = "raw" /\ closeCode'["server"] \in FailureCodes =>
             WrongIn(raw, closeCode'["server"])
  <2>1. CASE e = "server"
    <3>1. kind = "raw" /\ code \in FailureCodes => WrongIn(raw, code)
      BY <1>3, <1>4 DEF HeardClose, HeardError, code
    <3> QED
      BY <1>8, <2>1, <3>1
  <2>2. CASE e # "server"
    <3>1. d = "server"
      BY <2>2 DEF Other, Ends, QtEnds
    <3> QED
      BY <1>8, <3>1
  <2> QED
    BY <2>1, <2>2
<1> QED
  BY <1>8, <1>9, <1>10 DEF ProcessKeeps

LEMMA ProcessGoesOn ==
    ASSUME StreamInv, NEW e \in QtEnds, Open(e), NEW r, r = readFrame(reader[e]), r.st = "done",
           NEW out, out = processFrame(processor[e], r), ~Closes(out.signal),
           processor' = [processor EXCEPT ![e] = out.p],
           reader' = [reader EXCEPT ![e] = NewReader(r.in)],
           Receive(e, out.signal), UNCHANGED <<kind, sent, raw>>
    PROVE  ProcessKeeps(e)
<1> DEFINE d == Other(e)
           sg == out.signal
           nr == NewReader(r.in)
           pr == out.p
<1>1. e \in Ends /\ d \in Ends /\ d # e /\ (\A x \in Ends : x = e \/ x = d) /\ Other(d) = e
  BY EndsAre, OtherIs
<1>2. /\ processor = [x \in Ends |-> processor[x]] /\ reader = [x \in Ends |-> reader[x]]
      /\ kind \in {"qt", "raw"} /\ rcvd \in [Ends -> Seq(Msgs)] /\ net \in [Ends -> Seq(Bytes)]
  BY DEF StreamInv, StreamTyped, PeersInv, PeersTyped, ReadersKnown
<1>3. Heard(kind, state[d], sent[d], closeSent[d], closeCode[d], raw, r, out, rcvd[e], net[e])
  BY ProcessHears
<1>4. sg.kind \in {"none", "message", "ping", "pong"}
  BY <1>3 DEF Heard, SignalKinds, Closes
<1>5. /\ processor' = [x \in Ends |-> processor'[x]] /\ processor'[d] = processor[d]
      /\ processor'[e] = pr
  BY <1>1, <1>2, ProcessorStep
<1>6. reader'[e] = nr /\ reader'[d] = reader[d]
  BY <1>1, <1>2
<1>7. UNCHANGED <<state, closeSent, closeCode, closeRcvd, sent>>
  BY <1>4 DEF Receive
<1>8. /\ Flow(e)' <=> FlowOf(kind', state'[d], sent'[d], closeSent'[d], closeCode'[d], raw',
                             reader'[e], processor'[e], rcvd'[e], net'[e])
  BY DEF Flow
<1>9. StreamTyped' /\ Flow(e)' /\ (d \in QtEnds /\ Open(d)' => Flow(d)')
  <2> HIDE DEF nr, pr, d
  <2>1. CASE sg.kind \in {"none", "pong"}
    <3>1. UNCHANGED <<rcvd, net>>
      BY <2>1 DEF Receive
    <3>2. FlowOf(kind, state[d], sent[d], closeSent[d], closeCode[d], raw, nr, pr, rcvd[e], net[e])
      BY <1>3, <2>1 DEF Heard, HeardOn, nr, pr
    <3>3. StreamTyped'
      BY <1>5, <1>7, <3>1 DEF StreamInv, StreamTyped
    <3>4. Flow(e)'
      BY <1>5, <1>6, <1>7, <1>8, <3>1, <3>2
    <3>5. ASSUME d \in QtEnds, Open(d)'
          PROVE  Flow(d)'
      <4>1. Flow(d)
        BY <1>7, <3>5 DEF StreamInv, Flows, Open
      <4> QED
        BY <1>1, <1>5, <1>6, <1>7, <3>1, <4>1, FlowSame
    <3> QED
      BY <3>3, <3>4, <3>5
  <2>2. CASE sg.kind = "message"
    <3> DEFINE m == [op |-> sg.op, data |-> sg.data]
    <3>1. rcvd' = [rcvd EXCEPT ![e] = Append(@, m)] /\ UNCHANGED net
      BY <2>2 DEF Receive
    <3>2. /\ m \in Msgs
          /\ FlowOf(kind, state[d], sent[d], closeSent[d], closeCode[d], raw, nr, pr,
                    Append(rcvd[e], m), net[e])
      BY <1>3, <2>2 DEF Heard, HeardMessage, nr, pr
    <3>3. /\ rcvd' \in [Ends -> Seq(Msgs)] /\ rcvd'[e] = Append(rcvd[e], m)
          /\ rcvd'[d] = rcvd[d]
      <4> HIDE DEF Msgs, m
      <4> QED
        BY <1>1, <1>2, <3>1, <3>2
    <3> HIDE DEF m
    <3>4. StreamTyped'
      BY <1>5, <1>7, <3>1, <3>3 DEF StreamInv, StreamTyped
    <3>5. Flow(e)'
      BY <1>5, <1>6, <1>7, <1>8, <3>1, <3>2, <3>3
    <3>6. ASSUME d \in QtEnds, Open(d)'
          PROVE  Flow(d)'
      <4>1. Flow(d)
        BY <1>7, <3>6 DEF StreamInv, Flows, Open
      <4> QED
        BY <1>1, <1>5, <1>6, <1>7, <3>1, <3>3, <4>1, FlowSame
    <3> QED
      BY <3>4, <3>5, <3>6
  <2>3. CASE sg.kind = "ping"
    <3> DEFINE values == sg.data
               op == "pong"
    <3>1. /\ net' = Written(e, FrameBytes(op, values, Key(e), TRUE))
          /\ UNCHANGED rcvd
      BY <2>3 DEF Receive
    <3>2. op \in {"ping", "pong"} /\ values \in Seq(Nat) /\ Len(values) <= Len7
      BY <1>3, <2>3 DEF Heard, HeardPing
    <3>3. FlowOf(kind, state[d], sent[d], closeSent[d], closeCode[d], raw, nr, pr, rcvd[e], net[e])
      BY <1>3, <2>3 DEF Heard, HeardOn, nr, pr
    <3> HIDE DEF values, op
    <3>4. /\ net' \in [Ends -> Seq(Bytes)] /\ net'[e] = net[e]
          /\ kind = "raw" => net'["client"] = <<>>
          /\ /\ d \in QtEnds /\ Open(d) /\ reader'[d] = reader[d]
             /\ processor'[d] = processor[d] /\ rcvd'[d] = rcvd[d]
             => Flow(d)'
      BY <1>1, <1>7, <3>1, <3>2, PingFlows DEF d
    <3>5. StreamTyped'
      BY <1>5, <1>7, <3>1, <3>4 DEF StreamInv, StreamTyped
    <3>6. Flow(e)'
      BY <1>5, <1>6, <1>7, <1>8, <3>1, <3>3, <3>4
    <3>7. ASSUME d \in QtEnds, Open(d)'
          PROVE  Flow(d)'
      BY <1>5, <1>6, <1>7, <3>1, <3>4, <3>7 DEF Open
    <3> QED
      BY <3>5, <3>6, <3>7
  <2> QED
    BY <1>4, <2>1, <2>2, <2>3
<1>10. Flows'
  BY <1>1, <1>9, FlowsOf
<1>11. closeRcvd' = closeRcvd /\ closeCode' = closeCode
  BY <1>7
<1> QED
  BY <1>9, <1>10, <1>11 DEF ProcessKeeps

LEMMA ProcessWaits ==
    ASSUME StreamInv, NEW e \in QtEnds, Open(e),
           reader' = [reader EXCEPT ![e] = readFrame(reader[e])],
           UNCHANGED <<kind, raw, state, processor, closeSent, closeRcvd, closeCode, net, rcvd, sent>>
    PROVE  ProcessKeeps(e)
<1> DEFINE d == Other(e)
           nr == readFrame(reader[e])
<1>1. e \in Ends /\ d \in Ends /\ d # e /\ Other(d) = e
  BY EndsAre, OtherIs
<1>2. /\ reader = [x \in Ends |-> reader[x]] /\ net[e] \in Seq(Bytes)
  BY <1>1 DEF StreamInv, StreamTyped, PeersInv, ReadersKnown
<1>3. reader'[e] = nr /\ reader'[d] = reader[d]
  BY <1>1, <1>2
<1>4. StreamTyped'
  BY DEF StreamInv, StreamTyped
<1>5. Flow(e)'
  <2>1. FlowOf(kind, state[d], sent[d], closeSent[d], closeCode[d], raw, reader[e],
               processor[e], rcvd[e], net[e])
    BY DEF StreamInv, Flows, Flow
  <2>2. FlowOf(kind, state[d], sent[d], closeSent[d], closeCode[d], raw, nr,
               processor[e], rcvd[e], net[e])
    BY <1>2, <2>1, FlowWaits
  <2>3. /\ Flow(e)' <=> FlowOf(kind', state'[d], sent'[d], closeSent'[d], closeCode'[d], raw',
                               reader'[e], processor'[e], rcvd'[e], net'[e])
    BY DEF Flow
  <2> HIDE DEF nr, d
  <2> QED
    BY <1>3, <2>2, <2>3
<1>6. ASSUME d \in QtEnds, Open(d)'
      PROVE  Flow(d)'
  <2>1. Flow(d)
    BY <1>6 DEF StreamInv, Flows, Open
  <2> HIDE DEF d
  <2> QED
    BY <1>1, <1>3, <2>1, FlowSame
<1>7. Flows'
  BY <1>1, <1>5, <1>6, FlowsOf
<1> QED
  BY <1>4, <1>7 DEF ProcessKeeps

LEMMA ProcessFlows ==
    ASSUME StreamInv, NEW e \in Ends, Process(e)
    PROVE  ProcessKeeps(e)
<1>1. e \in QtEnds /\ Open(e) /\ UNCHANGED <<kind, sent, raw>>
  BY DEF Process
<1> DEFINE r == readFrame(reader[e])
           out == processFrame(processor[e], r)
<1>2. IF r.st # "done"
      THEN /\ reader' = [reader EXCEPT ![e] = r]
           /\ UNCHANGED <<state, processor, closeSent, closeRcvd, closeCode, net, rcvd>>
      ELSE /\ processor' = [processor EXCEPT ![e] = out.p]
           /\ IF Closes(out.signal)
              THEN /\ closeRcvd' = [closeRcvd EXCEPT ![e] = @ \/ out.signal.kind = "close"]
                   /\ CloseSocket(e, out.signal.code, out.signal.data)
                   /\ UNCHANGED rcvd
              ELSE /\ reader' = [reader EXCEPT ![e] = NewReader(r.in)]
                   /\ Receive(e, out.signal)
  BY DEF Process
<1>3. CASE r.st # "done"
  BY <1>1, <1>2, <1>3, ProcessWaits
<1>4. CASE r.st = "done" /\ Closes(out.signal)
  BY <1>1, <1>2, <1>4, ProcessCloses
<1>5. CASE r.st = "done" /\ ~Closes(out.signal)
  BY <1>1, <1>2, <1>5, ProcessGoesOn
<1> QED
  BY <1>3, <1>4, <1>5, Zenon

-----------------------------------------------------------------------------
(* Every step keeps the invariant.                                         *)

LEMMA DonesKept ==
    ASSUME StreamInv, [Next]_vars, kind' = kind,
           \A x \in Ends : closeRcvd'[x] /\ ~closeRcvd[x] /\ kind = "qt" =>
              /\ closeSent[Other(x)] /\ closeCode'[x] = AnswerTo(closeCode[Other(x)])
              /\ rcvd'[x] = sent[Other(x)]
    PROVE  Dones'
<1> SUFFICES ASSUME NEW x \in Ends, kind = "qt", closeRcvd'[x]
             PROVE  /\ closeSent'[Other(x)]
                    /\ closeCode'[x] = AnswerTo(closeCode'[Other(x)])
                    /\ rcvd'[x] = sent'[Other(x)]
  BY DEF Dones, Done
<1> DEFINE d == Other(x)
<1>1. d \in QtEnds /\ x \in QtEnds
  BY OtherIs DEF QtEnds
<1>2. ASSUME closeSent[d]
      PROVE  closeSent'[d] /\ closeCode'[d] = closeCode[d] /\ sent'[d] = sent[d]
  <2> HIDE DEF d
  <2> QED
    BY <1>1, <1>2, ClosedIsFinal
<1>3. CASE closeRcvd[x]
  <2>1. closeSent[x]
    BY <1>1, <1>3 DEF StreamInv, PeersInv, PeersTypeOK
  <2>2. closeCode'[x] = closeCode[x] /\ rcvd'[x] = rcvd[x]
    BY <1>1, <2>1, ClosedIsFinal
  <2>3. /\ closeSent[d] /\ closeCode[x] = AnswerTo(closeCode[d])
        /\ rcvd[x] = sent[d]
    BY <1>3 DEF StreamInv, Dones, Done
  <2> QED
    BY <1>2, <2>2, <2>3
<1>4. CASE ~closeRcvd[x]
  BY <1>2, <1>4
<1> QED
  BY <1>3, <1>4

LEMMA WrongGrows ==
    ASSUME NEW rw \in Seq(Frames), NEW f \in Frames, NEW g, g = Append(rw, f),
           NEW code, WrongIn(rw, code)
    PROVE  WrongIn(g, code)
<1>1. /\ Begins(rw, g) /\ g \in Seq(Frames)
      /\ Len(rw) \in Nat /\ Len(g) = Len(rw) + 1
      /\ \A i \in 1..Len(rw) : g[i] = rw[i]
  <2>1. Begins(rw, g)
    BY Grown
  <2>2. /\ g \in Seq(Frames) /\ Len(rw) \in Nat /\ Len(g) = Len(rw) + 1
        /\ \A i \in 1..Len(rw) : g[i] = rw[i]
    BY Grown
  <2> QED
    BY <2>1, <2>2
<1>2. PICK i \in DOMAIN rw :
        \/ code = CloseCodeProtocolError /\ BreaksProtocol(rw, i)
        \/ code = CloseCodeTooMuchData /\ TooLarge(rw, i)
        \/ code = CloseCodeWrongDatatype /\ BadText(rw, i)
        \/ rw[i].op = "close" /\ ClosesWith(rw[i].values, code)
  BY DEF WrongIn
<1>3. i \in 1..Len(rw) /\ i \in DOMAIN g
  BY <1>1
<1>4. /\ BreaksProtocol(g, i) = BreaksProtocol(rw, i)
      /\ TooLarge(g, i) = TooLarge(rw, i)
      /\ BadText(g, i) = BadText(rw, i)
  BY <1>1, <1>3, SameFrame
<1>5. g[i] = rw[i]
  BY <1>1, <1>3
<1>6. /\ BreaksProtocol(rw, i) => BreaksProtocol(g, i)
      /\ TooLarge(rw, i) => TooLarge(g, i)
      /\ BadText(rw, i) => BadText(g, i)
  BY <1>4, Zenon
<1> QED
  BY <1>2, <1>3, <1>5, <1>6 DEF WrongIn

LEMMA BlamedKept ==
    ASSUME StreamInv, kind' = kind, raw' = raw \/ \E f \in Wire : raw' = Append(raw, f),
           \/ closeCode'["server"] = closeCode["server"]
           \/ kind = "raw" /\ closeCode'["server"] \in FailureCodes =>
                \/ WrongIn(raw, closeCode'["server"])
                \/ \E c \in Closings : c.code = closeCode'["server"]
    PROVE  Blamed'
<1> DEFINE code == closeCode'["server"]
<1> SUFFICES ASSUME kind = "raw", code \in FailureCodes
             PROVE  WrongIn(raw', code) \/ \E c \in Closings : c.code = code
  BY DEF Blamed
<1>1. WrongIn(raw, code) \/ \E c \in Closings : c.code = code
  BY DEF StreamInv, Blamed
<1>2. WrongIn(raw, code) => WrongIn(raw', code)
  <2>1. raw \in Seq(Frames) /\ \A f \in Wire : f \in Frames
    BY WireFrames DEF StreamInv, StreamTyped
  <2>2. ASSUME NEW f \in Wire, raw' = Append(raw, f), WrongIn(raw, code)
        PROVE  WrongIn(raw', code)
    <3> DEFINE g == raw'
    <3>1. g = Append(raw, f)
      BY <2>2
    <3> HIDE DEF code, g
    <3>2. WrongIn(g, code)
      BY <2>1, <2>2, <3>1, WrongGrows
    <3> QED
      BY <3>2 DEF g
  <2> HIDE DEF code
  <2> QED
    BY <2>2
<1> QED
  BY <1>1, <1>2

LEMMA CloseKeeps ==
    ASSUME StreamInv, NEW e \in Ends, Close(e)
    PROVE  /\ StreamTyped' /\ Flows' /\ UNCHANGED <<kind, raw, closeRcvd>>
           /\ \/ closeCode'["server"] = closeCode["server"]
              \/ \E c \in Closings : c.code = closeCode'["server"]
<1>1. PICK c \in Closings : CloseSocket(e, c.code, c.reason)
  BY DEF Close
<1>2. e \in QtEnds /\ ~closeSent[e] /\ UNCHANGED <<kind, processor, closeRcvd, sent, rcvd, raw>>
  BY DEF Close, Free
<1> DEFINE code == c.code
           reason == c.reason
<1>3. code \in Nat /\ reason \in Seq(Nat) /\ LegalText(reason, TRUE)
  BY ClosingsAssumption
<1>4. processor' = [x \in Ends |-> processor'[x]] /\ processor'[Other(e)] = processor[Other(e)]
  BY <1>2 DEF StreamInv, StreamTyped
<1>5. CloseSocket(e, code, reason)
  BY <1>1
<1> HIDE DEF code, reason
<1>6. StreamTyped' /\ Flows' /\ closeCode'[e] = code /\ closeCode'[Other(e)] = closeCode[Other(e)]
  BY <1>2, <1>3, <1>4, <1>5, CloseFlows
<1>7. "server" = e \/ "server" = Other(e)
  BY DEF Ends, Other
<1> QED
  BY <1>2, <1>6, <1>7 DEF code

LEMMA TimeoutKeeps ==
    ASSUME StreamInv, NEW e \in Ends, ReadTimeout(e)
    PROVE  /\ StreamTyped' /\ Flows' /\ UNCHANGED <<kind, raw, closeRcvd>>
           /\ \/ closeCode'["server"] = closeCode["server"]
              \/ closeCode'["server"] \notin FailureCodes
<1> DEFINE code == CloseCodeGoingAway
           reason == <<>>
<1>1. /\ CloseSocket(e, code, reason) /\ UNCHANGED <<kind, closeRcvd, sent, rcvd, raw>>
      /\ processor' = [processor EXCEPT ![e] = clear] /\ Open(e) /\ inside[e]
  BY DEF ReadTimeout
<1>2. /\ processor = [x \in Ends |-> processor[x]] /\ kind \in {"qt", "raw"}
      /\ state \in [Ends -> States]
  BY DEF StreamInv, StreamTyped, PeersInv, PeersTyped
<1>3. CASE e \in QtEnds
  <2>1. ~closeSent[e]
    BY <1>1, <1>3 DEF StreamInv, PeersInv, PeersTypeOK
  <2>2. processor' = [x \in Ends |-> processor'[x]] /\ processor'[Other(e)] = processor[Other(e)]
    BY <1>1, <1>2, ProcessorStep
  <2>3. code \in Nat /\ reason \in Seq(Nat) /\ LegalText(reason, TRUE) /\ code \notin FailureCodes
    BY DEF CloseCodeGoingAway, LegalText, FailureCodes, CloseCodeProtocolError,
           CloseCodeWrongDatatype, CloseCodeTooMuchData
  <2> HIDE DEF code, reason
  <2>4. StreamTyped' /\ Flows' /\ closeCode'[e] = code
        /\ closeCode'[Other(e)] = closeCode[Other(e)]
    BY <1>1, <1>3, <2>1, <2>2, <2>3, CloseFlows
  <2>5. "server" = e \/ "server" = Other(e)
    BY DEF Ends, Other
  <2> QED
    BY <1>1, <2>3, <2>4, <2>5
<1>4. CASE e \notin QtEnds
  <2>1. kind = "raw" /\ e = "client"
    BY <1>2, <1>4 DEF QtEnds, Ends
  <2> QED
    BY <1>1, <2>1 DEF StreamInv, RawPeer
<1> QED
  BY <1>3, <1>4

LEMMA RawPeerKept ==
    ASSUME StreamInv, [Next]_vars
    PROVE  RawPeer' /\ kind' = kind
<1> DEFINE Same == UNCHANGED <<inside, sent, raw>>
<1>1. /\ RawPeer /\ kind \in {"qt", "raw"} /\ "client" \in Ends /\ inside \in Flags
      /\ sent \in [Ends -> Seq(Msgs)]
      /\ \A e \in QtEnds : kind = "raw" => e # "client"
  BY EndsAre DEF StreamInv, PeersInv, PeersTyped, StreamTyped, QtEnds
<1>2. ASSUME NEW e \in Ends, NEW code, NEW reason, CloseSocket(e, code, reason),
             kind = "raw" => e # "client"
      PROVE  kind = "raw" => inside'["client"] = inside["client"]
  BY <1>1, <1>2 DEF CloseSocket, Flags
<1>3. ASSUME NEW e \in Ends, SendMessage(e) PROVE RawPeer' /\ kind' = kind
  <2>1. PICK m : sent' = [sent EXCEPT ![e] = Append(@, m)]
    BY <1>3 DEF SendMessage
  <2> QED
    BY <1>1, <1>3, <2>1 DEF SendMessage, Free, RawPeer
<1>4. ASSUME NEW e \in Ends, Ping(e) \/ Abort(e) \/ Deliver(e) \/ Closed(e)
      PROVE  RawPeer' /\ kind' = kind
  BY <1>1, <1>4 DEF Ping, Abort, Deliver, Closed, RawPeer
<1>5. ASSUME NEW e \in Ends, Close(e) PROVE RawPeer' /\ kind' = kind
  <2>1. PICK c \in Closings : CloseSocket(e, c.code, c.reason)
    BY <1>5 DEF Close
  <2> QED
    BY <1>1, <1>2, <1>5, <2>1 DEF Close, Free, RawPeer
<1>6. ASSUME NEW e \in Ends, Process(e) PROVE RawPeer' /\ kind' = kind
  <2>1. e \in QtEnds /\ UNCHANGED <<kind, sent, raw>>
    BY <1>6 DEF Process
  <2>2. PICK r, outcome :
           IF r.st # "done"
           THEN inside' = [inside EXCEPT ![e] = TRUE]
           ELSE IF Closes(outcome.signal)
                THEN CloseSocket(e, outcome.signal.code, outcome.signal.data)
                ELSE inside' = [inside EXCEPT ![e] = ~outcome.done]
    BY <1>6 DEF Process
  <2>3. kind = "raw" => e # "client"
    BY <1>1, <2>1
  <2>4. CASE r.st # "done"
    BY <1>1, <2>1, <2>2, <2>3, <2>4 DEF RawPeer, Flags
  <2>5. CASE r.st = "done" /\ Closes(outcome.signal)
    BY <1>1, <1>2, <2>1, <2>2, <2>3, <2>5 DEF RawPeer
  <2>6. CASE r.st = "done" /\ ~Closes(outcome.signal)
    <3>1. inside' = [inside EXCEPT ![e] = ~outcome.done]
      BY <2>2, <2>6
    <3> QED
      BY <1>1, <2>1, <2>3, <3>1 DEF RawPeer, Flags
  <2> QED
    BY <2>4, <2>5, <2>6, Zenon
<1>7. ASSUME NEW e \in Ends, ReadTimeout(e) PROVE RawPeer' /\ kind' = kind
  <2>1. kind = "raw" => e # "client"
    BY <1>1, <1>7 DEF ReadTimeout, RawPeer
  <2>2. CloseSocket(e, CloseCodeGoingAway, <<>>) /\ UNCHANGED <<kind, sent, raw>>
    BY <1>7 DEF ReadTimeout
  <2> DEFINE code == CloseCodeGoingAway
             reason == <<>>
  <2>3. CloseSocket(e, code, reason)
    BY <2>2
  <2> HIDE DEF code, reason
  <2> QED
    BY <1>1, <1>2, <2>1, <2>2, <2>3 DEF RawPeer
<1>8. ASSUME NEW e \in Ends, RemoteClosed(e) PROVE RawPeer' /\ kind' = kind
  <2>1. /\ e \in QtEnds /\ UNCHANGED <<kind, sent, raw>>
        /\ inside' = inside \/ inside' = [inside EXCEPT ![e] = FALSE]
    BY <1>8 DEF RemoteClosed
  <2> QED
    BY <1>1, <2>1 DEF RawPeer, Flags
<1>9. ASSUME RawSend PROVE RawPeer' /\ kind' = kind
  <2>1. sent' = [sent EXCEPT !["client"] = MessagesOf(raw')] /\ UNCHANGED <<kind, inside>>
    BY <1>9 DEF RawSend
  <2> QED
    BY <1>1, <2>1 DEF RawPeer
<1>10. ASSUME RawClose PROVE RawPeer' /\ kind' = kind
  BY <1>1, <1>10 DEF RawClose, RawPeer
<1>11. ASSUME UNCHANGED vars PROVE RawPeer' /\ kind' = kind
  BY <1>1, <1>11 DEF vars, RawPeer
<1> QED
  BY <1>3, <1>4, <1>5, <1>6, <1>7, <1>8, <1>9, <1>10, <1>11 DEF Next

LEMMA PingKeeps ==
    ASSUME StreamInv, NEW e \in Ends, Ping(e)
    PROVE  StreamTyped' /\ Flows'
<1> DEFINE d == Other(e)
<1>1. PICK payload \in Pings :
        net' = Written(e, FrameBytes("ping", SubSeq(payload, 1,
                                     IF Len(payload) <= Len7 THEN Len(payload) ELSE Len7),
                                     Key(e), TRUE))
  BY DEF Ping
<1> DEFINE n == IF Len(payload) <= Len7 THEN Len(payload) ELSE Len7
           cut == SubSeq(payload, 1, n)
           op == "ping"
<1>2. /\ e \in QtEnds /\ Open(e) /\ d \in Ends /\ Other(d) = e
      /\ UNCHANGED <<kind, state, reader, processor, closeSent, closeCode, sent, rcvd, raw>>
  BY OtherIs DEF Ping, Free
<1>3. cut \in Seq(Nat) /\ Len(cut) <= Len7
  <2>1. payload \in Seq(Nat) /\ Len(payload) \in Nat /\ Len7 \in Nat
    BY PingsAssumption, LimitsAssumption
  <2>2. n \in 0..Len(payload) /\ n <= Len7
    BY <2>1
  <2> HIDE DEF n
  <2> QED
    BY <2>1, <2>2
<1>4. op \in {"ping", "pong"} /\ net' = Written(e, FrameBytes(op, cut, Key(e), TRUE))
  BY <1>1
<1> HIDE DEF cut, op, n
<1>5. UNCHANGED <<kind, state, closeSent, closeCode, sent, raw>>
  BY <1>2
<1>6. /\ net' \in [Ends -> Seq(Bytes)] /\ net'[e] = net[e]
      /\ kind = "raw" => net'["client"] = <<>>
      /\ d \in QtEnds /\ Open(d) => Flow(d)'
  BY <1>2, <1>3, <1>4, <1>5, PingFlows
<1>7. StreamTyped'
  <2> HIDE DEF Msgs, Bytes, Wire
  <2> QED
    BY <1>2, <1>6 DEF StreamInv, StreamTyped
<1>8. e \in QtEnds /\ Open(e)' => Flow(e)'
  <2> SUFFICES ASSUME e \in QtEnds, Open(e)' PROVE Flow(e)'
    OBVIOUS
  <2>1. Flow(e)
    BY <1>2 DEF StreamInv, Flows
  <2>2. d = Other(e)
    OBVIOUS
  <2> HIDE DEF d
  <2> QED
    BY <1>2, <1>6, <2>1, <2>2, FlowSame
<1>9. d \in QtEnds /\ Open(d)' => Flow(d)'
  BY <1>2, <1>6 DEF Open
<1> QED
  BY <1>2, <1>7, <1>8, <1>9, FlowsOf

LEMMA StillFlows ==
    ASSUME StreamInv, UNCHANGED vars
    PROVE  StreamTyped' /\ Flows'
<1>1. /\ UNCHANGED <<kind, state, reader, processor, closeSent, closeCode>>
      /\ UNCHANGED <<net, sent, rcvd, raw>>
  BY DEF vars
<1>2. StreamTyped'
  <2> HIDE DEF Msgs, Bytes, Wire
  <2> QED
    BY <1>1 DEF StreamInv, StreamTyped
<1>3. ASSUME NEW x \in QtEnds, Open(x)' PROVE Flow(x)'
  <2> DEFINE d == Other(x)
  <2>1. Flow(x) /\ d = Other(x)
    BY <1>1, <1>3 DEF StreamInv, Flows, Open
  <2> HIDE DEF d
  <2> QED
    BY <1>1, <2>1, FlowSame
<1>4. QtEnds' = QtEnds
  BY <1>1, QtEndsKept
<1> QED
  BY <1>2, <1>3, <1>4 DEF Flows

\* What every step keeps, and why an end hears of a close and reports a code.
StepKeeps ==
    /\ StreamTyped' /\ Flows'
    /\ raw' = raw \/ \E f \in Wire : raw' = Append(raw, f)
    /\ \A x \in Ends : closeRcvd'[x] /\ ~closeRcvd[x] /\ kind = "qt" =>
          /\ closeSent[Other(x)] /\ closeCode'[x] = AnswerTo(closeCode[Other(x)])
          /\ rcvd'[x] = sent[Other(x)]
    /\ \/ closeCode'["server"] = closeCode["server"]
       \/ kind = "raw" /\ closeCode'["server"] \in FailureCodes =>
            \/ WrongIn(raw, closeCode'["server"])
            \/ \E c \in Closings : c.code = closeCode'["server"]

LEMMA NextKeeps ==
    ASSUME StreamInv, [Next]_vars
    PROVE  StepKeeps
<1>1. ASSUME NEW e \in Ends, SendMessage(e) PROVE StepKeeps
  <2>1. UNCHANGED <<raw, closeRcvd, closeCode>>
    BY <1>1 DEF SendMessage
  <2> QED
    BY <1>1, <2>1, SendFlows DEF StepKeeps
<1>2. ASSUME NEW e \in Ends, Ping(e) PROVE StepKeeps
  <2>1. UNCHANGED <<raw, closeRcvd, closeCode>>
    BY <1>2 DEF Ping
  <2> QED
    BY <1>2, <2>1, PingKeeps DEF StepKeeps
<1>3. ASSUME NEW e \in Ends, Close(e) PROVE StepKeeps
  BY <1>3, CloseKeeps DEF StepKeeps
<1>4. ASSUME NEW e \in Ends, Abort(e) PROVE StepKeeps
  <2>1. UNCHANGED <<raw, closeRcvd, closeCode>>
    BY <1>4 DEF Abort
  <2> QED
    BY <1>4, <2>1, AbortFlows DEF StepKeeps
<1>5. ASSUME NEW e \in Ends, Process(e) PROVE StepKeeps
  BY <1>5, ProcessFlows DEF StepKeeps, ProcessKeeps
<1>6. ASSUME NEW e \in Ends, ReadTimeout(e) PROVE StepKeeps
  BY <1>6, TimeoutKeeps DEF StepKeeps
<1>7. ASSUME NEW e \in Ends, Deliver(e) PROVE StepKeeps
  <2>1. UNCHANGED <<raw, closeRcvd, closeCode>>
    BY <1>7 DEF Deliver
  <2> QED
    BY <1>7, <2>1, DeliverFlows DEF StepKeeps
<1>8. ASSUME NEW e \in Ends, Closed(e) PROVE StepKeeps
  <2>1. UNCHANGED <<raw, closeRcvd, closeCode>>
    BY <1>8 DEF Closed
  <2> QED
    BY <1>8, <2>1, ClosedFlows DEF StepKeeps
<1>9. ASSUME NEW e \in Ends, RemoteClosed(e) PROVE StepKeeps
  <2>1. /\ UNCHANGED <<raw, closeRcvd>>
        /\ \/ closeCode' = closeCode
           \/ closeCode' = [closeCode EXCEPT ![e] = CloseCodeGoingAway]
    BY <1>9 DEF RemoteClosed
  <2>2. closeCode \in [Ends -> Nat] /\ "server" \in Ends
    BY EndsAre DEF StreamInv, StreamTyped
  <2>3. closeCode'["server"] = closeCode["server"] \/ closeCode'["server"] = CloseCodeGoingAway
    BY <2>1, <2>2
  <2>4. CloseCodeGoingAway \notin FailureCodes
    BY DEF CloseCodeGoingAway, FailureCodes, CloseCodeProtocolError,
           CloseCodeWrongDatatype, CloseCodeTooMuchData
  <2> QED
    BY <1>9, <2>1, <2>3, <2>4, RemoteClosedFlows DEF StepKeeps
<1>10. ASSUME RawSend PROVE StepKeeps
  <2>1. UNCHANGED <<closeRcvd, closeCode>>
    BY <1>10 DEF RawSend
  <2> QED
    BY <1>10, <2>1, RawSendFlows DEF StepKeeps
<1>11. ASSUME RawClose PROVE StepKeeps
  <2>1. UNCHANGED <<raw, closeRcvd, closeCode>>
    BY <1>11 DEF RawClose
  <2> QED
    BY <1>11, <2>1, RawCloseFlows DEF StepKeeps
<1>12. ASSUME UNCHANGED vars PROVE StepKeeps
  <2>1. UNCHANGED <<raw, closeRcvd, closeCode>>
    BY <1>12 DEF vars
  <2> QED
    BY <1>12, <2>1, StillFlows DEF StepKeeps
<1> QED
  BY <1>1, <1>2, <1>3, <1>4, <1>5, <1>6, <1>7, <1>8, <1>9, <1>10, <1>11, <1>12 DEF Next

LEMMA StreamStep ==
    ASSUME StreamInv, [Next]_vars
    PROVE  StreamInv'
<1>1. PeersInv'
  BY PeersStep DEF StreamInv
<1>2. StepKeeps
  BY NextKeeps
<1>3. RawPeer' /\ kind' = kind
  BY RawPeerKept
<1>4. Dones'
  BY <1>2, <1>3, DonesKept DEF StepKeeps
<1>5. Blamed'
  BY <1>2, <1>3, BlamedKept DEF StepKeeps
<1> QED
  BY <1>1, <1>2, <1>3, <1>4, <1>5 DEF StreamInv, StepKeeps

-----------------------------------------------------------------------------
(* The theorems.                                                           *)

\* At every moment the bytes underway to an open end are those of the frames that follow
\* the frames it has processed; what it is assembling and what it has handed to its user
\* are what those frames amount to; and its peer has sent no more than they promise.
THEOREM StreamInvariance == Spec => []StreamInv
<1>1. Init => StreamInv
  BY InitInv
<1>2. StreamInv /\ [Next]_vars => StreamInv'
  BY StreamStep
<1> QED
  BY <1>1, <1>2, PTL DEF Spec

\* After its close() an end sends no message, gives its user none, and keeps its close
\* code, whatever arrives late and however often the user calls close() again.
THEOREM ClosedForGood ==
    Spec => [][\A d \in QtEnds : closeSent[d] =>
                  /\ closeSent'[d] /\ closeCode'[d] = closeCode[d]
                  /\ sent'[d] = sent[d] /\ rcvd'[d] = rcvd[d]]_vars
<1> DEFINE A == \A d \in QtEnds : closeSent[d] =>
                  /\ closeSent'[d] /\ closeCode'[d] = closeCode[d]
                  /\ sent'[d] = sent[d] /\ rcvd'[d] = rcvd[d]
<1>1. StreamInv /\ [Next]_vars => [A]_vars
  BY ClosedIsFinal
<1> QED
  BY <1>1, StreamInvariance, PTL DEF Spec

\* The code that an end reports after the closing handshake is the one that its peer's
\* user gave to close(), or 1002 when that code must not appear on the wire: however the
\* frames were cut, and whatever was sent before.
THEOREM CloseCodeIsPeers == Spec => []CloseCodeFromPeer
<1>1. StreamInv => CloseCodeFromPeer
  BY DEF StreamInv, Dones, Done, AnswerTo, CloseCodeFromPeer
<1> QED
  BY <1>1, StreamInvariance, PTL

\* An end that has received the close frame has handed every message that its peer sent
\* before it to its user, and none of those that the peer's user sent when aboutToClose()
\* was emitted.
THEOREM NothingLostAtClose == Spec => []AllReceivedAtClose
<1>1. StreamInv => AllReceivedAtClose
  BY DEF StreamInv, Dones, Done, AllReceivedAtClose
<1> QED
  BY <1>1, StreamInvariance, PTL

\* The server fails a connection with the code of what was wrong: where no user closes
\* with a failure code, a frame that the peer sent breaks the rule that the reported code
\* stands for, or the peer's own close frame carries that code.
THEOREM FailureIsPeers ==
    ASSUME \A c \in Closings : c.code \notin FailureCodes
    PROVE  Spec => []FailedWithReason
<1>1. StreamInv => FailedWithReason
  <2> SUFFICES ASSUME StreamInv, kind = "raw", closeCode["server"] \in FailureCodes
               PROVE  Wrong(closeCode["server"])
    BY DEF FailedWithReason
  <2>1. WrongIn(raw, closeCode["server"])
    BY DEF StreamInv, Blamed
  <2> QED
    BY <2>1 DEF WrongIn, Wrong
<1> QED
  BY <1>1, StreamInvariance, PTL

-----------------------------------------------------------------------------
(* The pair of ends implements the channel.                                *)

Promised == Channel!Next \/ UNCHANGED Channel!vars

LEMMA IsStill ==
    ASSUME UNCHANGED <<state, sent, rcvd>>
    PROVE  Promised
<1>1. UNCHANGED [x \in Ends |-> Open(x)]
  BY DEF Open
<1> QED
  BY <1>1 DEF Promised, Channel!vars

LEMMA LastOf ==
    ASSUME sent \in [Ends -> Seq(Msgs)], NEW e \in Ends, NEW m,
           sent' = [sent EXCEPT ![e] = Append(@, m)]
    PROVE  \E x \in {sent'[e][i] : i \in DOMAIN sent'[e]} : sent' = [sent EXCEPT ![e] = Append(@, x)]
<1> DEFINE s == sent[e]
<1>1. s \in Seq(Msgs) /\ sent'[e] = Append(s, m)
  OBVIOUS
<1> HIDE DEF s
<1>2. Len(s) + 1 \in DOMAIN sent'[e] /\ sent'[e][Len(s) + 1] = m
  BY <1>1
<1>3. m \in {sent'[e][i] : i \in DOMAIN sent'[e]}
  BY <1>2
<1> QED
  BY <1>3

LEMMA IsSend ==
    ASSUME sent \in [Ends -> Seq(Msgs)], NEW e \in Ends, Open(e), NEW m,
           sent' = [sent EXCEPT ![e] = Append(@, m)], UNCHANGED <<state, rcvd>>
    PROVE  Promised
<1> DEFINE opens == [x \in Ends |-> Open(x)]
<1>1. opens[e] /\ UNCHANGED opens
  BY DEF Open
<1>2. \E x \in {sent'[e][i] : i \in DOMAIN sent'[e]} : sent' = [sent EXCEPT ![e] = Append(@, x)]
  BY LastOf
<1>3. Channel!Send(e)
  BY <1>1, <1>2 DEF Channel!Send
<1> QED
  BY <1>3 DEF Promised, Channel!Next

LEMMA IsClose ==
    ASSUME NEW e \in Ends, state'[e] # "Connected",
           state'[Other(e)] = state[Other(e)], UNCHANGED <<sent, rcvd>>
    PROVE  Promised
<1> DEFINE opens == [x \in Ends |-> Open(x)]
<1>1. opens' = [opens EXCEPT ![e] = FALSE]
  <2>1. \A x \in Ends : Open(x)' = IF x = e THEN FALSE ELSE Open(x)
    BY OtherIs DEF Open
  <2>2. opens' = [x \in Ends |-> Open(x)']
    OBVIOUS
  <2>3. [opens EXCEPT ![e] = FALSE] = [x \in Ends |-> IF x = e THEN FALSE ELSE Open(x)]
    OBVIOUS
  <2> QED
    BY <2>1, <2>2, <2>3
<1>2. Channel!Close(e)
  BY <1>1 DEF Channel!Close
<1> QED
  BY <1>2 DEF Promised, Channel!Next

LEMMA IsReceive ==
    ASSUME sent \in [Ends -> Seq(Msgs)], rcvd \in [Ends -> Seq(Msgs)], NEW e \in Ends, Open(e),
           NEW m \in Msgs, Starts(Append(rcvd[e], m), sent[Other(e)]),
           rcvd' = [rcvd EXCEPT ![e] = Append(@, m)], UNCHANGED <<state, sent>>
    PROVE  Promised
<1> DEFINE opens == [x \in Ends |-> Open(x)]
           s == rcvd[e]
           t == sent[Other(e)]
<1>1. opens[e] /\ UNCHANGED opens
  BY DEF Open
<1>2. Channel!Other(e) = Other(e)
  BY OtherIs DEF Channel!Other
<1>3. s \in Seq(Msgs) /\ t \in Seq(Msgs) /\ Starts(Append(s, m), t)
  BY OtherIs
<1>4. Len(s) < Len(t) /\ t[Len(s) + 1] = m
  <2> HIDE DEF s, t
  <2>1. Len(Append(s, m)) = Len(s) + 1 /\ Append(s, m)[Len(s) + 1] = m /\ Len(s) \in Nat
        /\ Len(t) \in Nat
    BY <1>3
  <2> QED
    BY <1>3, <2>1 DEF Starts
<1>5. rcvd' = [rcvd EXCEPT ![e] = Append(@, t[Len(@) + 1])]
  BY <1>4
<1>6. Channel!Receive(e)
  BY <1>1, <1>2, <1>4, <1>5 DEF Channel!Receive
<1> QED
  BY <1>6 DEF Promised, Channel!Next

LEMMA ClosingPromised ==
    ASSUME StreamInv, NEW e \in Ends, NEW code, NEW reason, CloseSocket(e, code, reason),
           UNCHANGED <<sent, rcvd>>
    PROVE  Promised
<1>1. state \in [Ends -> States]
  BY DEF StreamInv, PeersInv, PeersTyped
<1>2. /\ state' = [state EXCEPT ![e] = StateAfterClose(e)] /\ StateAfterClose(e) # "Connected"
      /\ Other(e) \in Ends /\ Other(e) # e
  BY OtherIs DEF CloseSocket, StateAfterClose
<1> QED
  BY <1>1, <1>2, IsClose

LEMMA GonePromised ==
    ASSUME StreamInv, NEW e \in Ends, state' = [state EXCEPT ![e] = "Unconnected"],
           UNCHANGED <<sent, rcvd>>
    PROVE  Promised
<1>1. state \in [Ends -> States]
  BY DEF StreamInv, PeersInv, PeersTyped
<1>2. Other(e) \in Ends /\ Other(e) # e
  BY OtherIs
<1> QED
  BY <1>1, <1>2, IsClose

LEMMA RawPromised ==
    ASSUME StreamInv, RawSend
    PROVE  Promised
<1>1. PICK f \in RawFrames : raw' = Append(raw, f)
  BY DEF RawSend
<1>2. /\ Open("client") /\ "client" \in Ends /\ UNCHANGED <<state, rcvd>>
      /\ sent' = [sent EXCEPT !["client"] = MessagesOf(raw')]
      /\ sent["client"] = MessagesOf(raw) /\ sent \in [Ends -> Seq(Msgs)]
  BY EndsAre DEF RawSend, Open, StreamInv, RawPeer, StreamTyped
<1>3. raw \in Seq(Frames) /\ f \in Frames
  BY RawFramesAre, WireFrames DEF StreamInv, StreamTyped
<1> DEFINE g == raw'
<1>4. g = Append(raw, f)
  BY <1>1
<1>5. MessagesOf(g) = MessagesOf(raw) \/ \E m : MessagesOf(g) = Append(MessagesOf(raw), m)
  <2> HIDE DEF g
  <2> QED
    BY <1>3, <1>4, MessagesThen
<1>6. CASE MessagesOf(g) = MessagesOf(raw)
  BY <1>2, <1>6, IsStill
<1>7. CASE \E m : MessagesOf(g) = Append(MessagesOf(raw), m)
  <2>1. PICK m : MessagesOf(g) = Append(MessagesOf(raw), m)
    BY <1>7
  <2>2. sent' = [sent EXCEPT !["client"] = Append(@, m)]
    BY <1>2, <2>1
  <2> DEFINE e == "client"
  <2>3. e \in Ends /\ Open(e) /\ sent' = [sent EXCEPT ![e] = Append(@, m)]
    BY <1>2, <2>2
  <2> HIDE DEF e
  <2> QED
    BY <1>2, <2>3, IsSend
<1> QED
  BY <1>5, <1>6, <1>7

LEMMA ProcessPromised ==
    ASSUME StreamInv, NEW e \in Ends, Process(e)
    PROVE  Promised
<1>1. e \in QtEnds /\ Open(e) /\ UNCHANGED sent
  BY DEF Process
<1>2. PICK r, out :
        /\ r = readFrame(reader[e]) /\ out = processFrame(processor[e], r)
        /\ IF r.st # "done"
           THEN UNCHANGED <<state, rcvd>>
           ELSE IF Closes(out.signal)
                THEN CloseSocket(e, out.signal.code, out.signal.data) /\ UNCHANGED rcvd
                ELSE Receive(e, out.signal)
  BY DEF Process
<1>3. CASE r.st # "done"
  BY <1>1, <1>2, <1>3, IsStill
<1>4. CASE r.st = "done" /\ Closes(out.signal)
  <2>1. CloseSocket(e, out.signal.code, out.signal.data) /\ UNCHANGED <<sent, rcvd>>
    BY <1>1, <1>2, <1>4
  <2> QED
    BY <2>1, ClosingPromised
<1>5. CASE r.st = "done" /\ ~Closes(out.signal)
  <2> DEFINE d == Other(e)
  <2>1. Receive(e, out.signal)
    BY <1>2, <1>5
  <2>2. Heard(kind, state[d], sent[d], closeSent[d], closeCode[d], raw, r, out, rcvd[e], net[e])
    <3>1. d = Other(e)
      OBVIOUS
    <3> HIDE DEF d
    <3> QED
      BY <1>1, <1>2, <1>5, <3>1, ProcessHears
  <2>3. out.signal.kind \in {"none", "message", "ping", "pong"}
    BY <1>5, <2>2 DEF Heard, SignalKinds, Closes
  <2>4. CASE out.signal.kind # "message"
    <3>1. UNCHANGED <<state, sent, rcvd>>
      BY <1>1, <2>1, <2>3, <2>4 DEF Receive
    <3> QED
      BY <3>1, IsStill
  <2>5. CASE out.signal.kind = "message"
    <3> DEFINE m == [op |-> out.signal.op, data |-> out.signal.data]
    <3>1. rcvd' = [rcvd EXCEPT ![e] = Append(@, m)] /\ UNCHANGED <<state, sent>>
      BY <1>1, <2>1, <2>5 DEF Receive
    <3>2. m \in Msgs /\ Starts(Append(rcvd[e], m), sent[d])
      BY <2>2, <2>5 DEF Heard, HeardMessage
    <3>3. sent \in [Ends -> Seq(Msgs)] /\ rcvd \in [Ends -> Seq(Msgs)]
      BY DEF StreamInv, StreamTyped
    <3> HIDE DEF m
    <3> QED
      BY <1>1, <3>1, <3>2, <3>3, IsReceive
  <2> QED
    BY <2>4, <2>5
<1> QED
  BY <1>3, <1>4, <1>5

LEMMA StepPromised ==
    ASSUME StreamInv, [Next]_vars
    PROVE  Promised
<1>1. sent \in [Ends -> Seq(Msgs)]
  BY DEF StreamInv, StreamTyped
<1>2. ASSUME NEW e \in Ends, SendMessage(e) PROVE Promised
  <2>1. PICK m : sent' = [sent EXCEPT ![e] = Append(@, m)]
    BY <1>2 DEF SendMessage
  <2>2. Open(e) /\ UNCHANGED <<state, rcvd>>
    BY <1>2 DEF SendMessage, Open
  <2> QED
    BY <1>1, <2>1, <2>2, IsSend
<1>3. ASSUME NEW e \in Ends, Ping(e) \/ Deliver(e) PROVE Promised
  <2>1. UNCHANGED <<state, sent, rcvd>>
    BY <1>3 DEF Ping, Deliver
  <2> QED
    BY <2>1, IsStill
<1>4. ASSUME NEW e \in Ends, Close(e) PROVE Promised
  <2>1. (\E c \in Closings : CloseSocket(e, c.code, c.reason)) /\ UNCHANGED <<sent, rcvd>>
    BY <1>4 DEF Close
  <2> QED
    BY <2>1, ClosingPromised
<1>5. ASSUME NEW e \in Ends, Abort(e) \/ Closed(e) \/ RemoteClosed(e) PROVE Promised
  <2>1. state' = [state EXCEPT ![e] = "Unconnected"] /\ UNCHANGED <<sent, rcvd>>
    BY <1>5 DEF Abort, Closed, RemoteClosed
  <2> QED
    BY <2>1, GonePromised
<1>6. ASSUME NEW e \in Ends, ReadTimeout(e) PROVE Promised
  <2> DEFINE reason == <<>>
  <2>1. CloseSocket(e, CloseCodeGoingAway, reason) /\ UNCHANGED <<sent, rcvd>>
    BY <1>6 DEF ReadTimeout
  <2> HIDE DEF reason
  <2> QED
    BY <2>1, ClosingPromised
<1>7. ASSUME RawClose PROVE Promised
  <2> DEFINE e == "client"
  <2>1. e \in Ends /\ state' = [state EXCEPT ![e] = "Unconnected"] /\ UNCHANGED <<sent, rcvd>>
    BY <1>7, EndsAre DEF RawClose
  <2> HIDE DEF e
  <2> QED
    BY <2>1, GonePromised
<1>8. ASSUME UNCHANGED vars PROVE Promised
  <2>1. UNCHANGED <<state, sent, rcvd>>
    BY <1>8 DEF vars
  <2> QED
    BY <2>1, IsStill
<1> QED
  BY <1>2, <1>3, <1>4, <1>5, <1>6, <1>7, <1>8, ProcessPromised, RawPromised DEF Next

\* Whatever way a message is cut into frames and the frames into segments, with control
\* frames between its fragments, users are given the messages of the peer whole, once, in
\* order, of the right kind, and nothing of an illegal frame or of what follows it.
THEOREM ChannelImplemented == Spec => ChannelSpec
<1>1. Init => Channel!Init
  <2> SUFFICES ASSUME Init PROVE Channel!Init
    OBVIOUS
  <2>1. sent = [e \in Ends |-> <<>>] /\ rcvd = [e \in Ends |-> <<>>]
    BY DEF Init
  <2>2. \A e \in Ends : Open(e) = TRUE
    BY DEF Init, Open
  <2>3. [e \in Ends |-> Open(e)] = [e \in Ends |-> TRUE]
    BY <2>2
  <2> QED
    BY <2>1, <2>3 DEF Channel!Init
<1>2. StreamInv /\ [Next]_vars => [Channel!Next]_(Channel!vars)
  BY StepPromised DEF Promised
<1> QED
  BY <1>1, <1>2, StreamInvariance, PTL DEF Spec, ChannelSpec, Channel!Spec
=============================================================================
