----------------------- MODULE QWebSocketDataProcessor -----------------------
(***************************************************************************)
(* QWebSocketDataProcessor: which frames may follow each other, how the    *)
(* fragments of a message are put together and decoded, and which signal a *)
(* frame leads to.                                                         *)
(*                                                                         *)
(* Text is UTF-8 with characters of one byte (One) and of two (Lead, Trail).   *)
(* A processor is a record of                                              *)
(*   frag        m_isFragmented,                                           *)
(*   op          m_opCode, the opcode of the message under way,            *)
(*   data        m_textMessage or m_binaryMessage, as bytes,               *)
(*   remaining   m_pConverterState->remainingChars.                        *)
(***************************************************************************)
EXTENDS QWebSocketFrame

CONSTANT MaxMessage     \* MAX_MESSAGE_SIZE_IN_BYTES

ASSUME MaxMessageAssumption == MaxMessage \in Nat \ {0} /\ MaxMessage >= MaxFrame

\* The bytes of text, and of close codes: the first byte stands for the code.
One == 1
Lead == 2
Trail == 3
LowByte == 0

Values(payload) == [i \in DOMAIN payload |-> payload[i].v]

\* What toUnicode makes of bytes that follow remaining bytes of a character.
ValidUtf8(values, remaining) ==
    \A i \in DOMAIN values :
        values[i] = Trail <=> IF i = 1 THEN remaining = 1 ELSE values[i - 1] = Lead

RemainingChars(values, remaining) ==
    IF values = <<>> THEN remaining
    ELSE IF values[Len(values)] = Lead THEN 1 ELSE 0

\* The length of decoded text: a character counts when its last byte has come.
Characters(values) == Cardinality({k \in DOMAIN values : values[k] # Lead})

\* m_textMessage counts characters, m_binaryMessage bytes.
MessageLength(p) == IF p.op = "text" THEN Characters(p.data) ELSE Len(p.data)

clear == [frag |-> FALSE, op |-> "close", data |-> <<>>, remaining |-> 0]

\* The constructor.
NewProcessor == clear

(***************************************************************************)
(* The outcome of a frame: the processor after it, whether process()       *)
(* returns, and the signal it emits:                                       *)
(*   "none", "message" (op, data), "ping" / "pong" (data),                 *)
(*   "close" (code, data), "error" (code).                                 *)
(***************************************************************************)
Outcome(p, done, signal) == [p |-> p, done |-> done, signal |-> signal]
Signal(kind) == [kind |-> kind, op |-> "close", data |-> <<>>, code |-> CloseCodeNormal]
Fail(code) == Outcome(clear, TRUE, [Signal("error") EXCEPT !.code = code])

\* Mutant: the code is not read from the frame.
CloseSignalNormal(values) == [Signal("close") EXCEPT !.data = SubSeq(values, 3, Len(values))]

\* The code and the reason that a close frame carries.
CloseSignal(values) ==
    LET signal(code, reason) == [Signal("close") EXCEPT !.code = code, !.data = reason]
        reason == SubSeq(values, 3, Len(values))
    IN  CASE values = <<>> -> signal(CloseCodeNormal, <<>>)
          [] Len(values) = 1 -> signal(CloseCodeProtocolError, <<>>)
          [] Len(values) > 1 /\ ~isCloseCodeValid(values[1]) -> signal(CloseCodeProtocolError, <<>>)
          [] OTHER -> IF ValidUtf8(reason, 0) /\ RemainingChars(reason, 0) = 0
                      THEN signal(values[1], reason)
                      ELSE signal(CloseCodeWrongDatatype, <<>>)

processControlFrame(p, f) ==
    Outcome(p, TRUE, IF f.op = "close" THEN CloseSignal(Values(f.payload))
                     ELSE [Signal(f.op) EXCEPT !.data = Values(f.payload)])

AppendFrame(p, f) ==
    LET values == Values(f.payload)
        whole  == [p EXCEPT !.data = @ \o values,
                            !.remaining = IF p.op = "text" THEN RemainingChars(values, @) ELSE 0]
    IN  IF MessageLength(p) + Len(values) > MaxMessage THEN Fail(CloseCodeTooMuchData)
        ELSE IF p.op = "text" /\ ( \/ ~ValidUtf8(values, p.remaining)
                                   \/ f.fin /\ whole.remaining # 0 )
        THEN Fail(CloseCodeWrongDatatype)
        ELSE IF f.fin
        THEN Outcome(clear, TRUE, [Signal("message") EXCEPT !.op = p.op, !.data = whole.data])
        ELSE Outcome(whole, FALSE, Signal("none"))

\* Mutant: a continuation of nothing is a message.
processDataFrameUnchecked(p, f) ==
    AppendFrame(IF p.frag THEN p ELSE [p EXCEPT !.op = "binary", !.frag = ~f.fin], f)

processDataFrame(p, f) ==
    IF p.frag # (f.op = "continue") THEN Fail(CloseCodeProtocolError)
    ELSE AppendFrame(IF p.frag THEN p ELSE [p EXCEPT !.op = f.op, !.frag = ~f.fin], f)

\* One turn of the loop of process(), for a frame that readFrame returned.
processFrame(p, f) ==
    IF ~f.valid THEN Fail(f.code)
    ELSE IF f.op \in Control THEN processControlFrame(p, f)
    ELSE processDataFrame(p, f)

(***************************************************************************)
(* What a sequence of frames means, said without a processor: the legal    *)
(* frames are those up to the first that breaks a rule, and each final     *)
(* data frame among them completes a message, which is the bytes of the    *)
(* data frames from the last one that opened a message.                    *)
(*                                                                         *)
(* A frame here is [fin, rsv, op, form, n, masked, values]: form is how    *)
(* its length is written ("7", "16", "64"), n the length it announces.     *)
(***************************************************************************)
WellFormed(f) ==
    /\ ~f.rsv /\ ~isOpCodeReserved(f.op)
    /\ f.op \in Control => f.fin /\ f.form = "7"
    /\ CASE f.form = "7" -> f.n <= Len7
         [] f.form = "16" -> f.n > Len7
         [] f.form = "64" -> f.n > Len16 /\ f.n <= Len63

DataBefore(fs, i) == {j \in 1..(i - 1) : fs[j].op \notin Control}

\* A message is open before frame i when the last data frame was not final.
OpenBefore(fs, i) ==
    DataBefore(fs, i) # {} /\ ~fs[Max(DataBefore(fs, i))].fin

\* The data frames of the message that frame i belongs to, up to i.
Parts(fs, i) ==
    {j \in 1..i : /\ fs[j].op \notin Control
                  /\ \A k \in (j + 1)..i : fs[k].op \in Control \cup {"continue"}}

\* The opcode of the frame that opened the message, if one did.
Opcode(fs, i) ==
    LET openers == {j \in Parts(fs, i) : fs[j].op # "continue"}
    IN  IF openers = {} THEN "continue" ELSE fs[Max(openers)].op

Assembled(fs, i) ==
    FlattenSeq([j \in 1..i |-> IF j \in Parts(fs, i) THEN fs[j].values ELSE <<>>])

LegalText(values, fin) ==
    /\ \A k \in DOMAIN values : values[k] = Trail <=> k > 1 /\ values[k - 1] = Lead
    /\ fin => values = <<>> \/ values[Len(values)] # Lead

\* A message grows by the bytes of a frame, but text that is already decoded
\* counts in characters.
Size(fs, i) ==
    LET all  == Assembled(fs, i)
        before == SubSeq(all, 1, Len(all) - Len(fs[i].values))
    IN  Len(fs[i].values)
        + IF Opcode(fs, i) = "text" THEN Characters(before) ELSE Len(before)

BreaksProtocol(fs, i) ==
    LET f == fs[i] IN
    \/ ~WellFormed(f)
    \/ f.op \notin Control /\ ((f.op = "continue") # OpenBefore(fs, i))

TooLarge(fs, i) ==
    \/ fs[i].n > MaxFrame
    \/ ~BreaksProtocol(fs, i) /\ fs[i].op \notin Control /\ Size(fs, i) > MaxMessage

BadText(fs, i) ==
    /\ ~BreaksProtocol(fs, i)
    /\ fs[i].op \notin Control /\ Opcode(fs, i) = "text"
    /\ ~LegalText(Assembled(fs, i), fs[i].fin)

LegalFrame(fs, i) == ~(BreaksProtocol(fs, i) \/ TooLarge(fs, i) \/ BadText(fs, i))

\* Frames that are read: up to the first illegal one or the first close.
LegalFrames(fs) ==
    {i \in DOMAIN fs : \A k \in 1..i : LegalFrame(fs, k) /\ (k < i => fs[k].op # "close")}

MessagesOf(fs) ==
    LET ends == {i \in LegalFrames(fs) : fs[i].op \notin Control /\ fs[i].fin}
        all  == [i \in 1..Len(fs) |->
                   IF i \in ends THEN <<[op |-> Opcode(fs, i), data |-> Assembled(fs, i)]>>
                   ELSE <<>>]
    IN  FlattenSeq(all)
=============================================================================
