--------------------------- MODULE MCQWebSocketPeers ---------------------------
(* Small messages and frames for QWebSocketPeers. *)
EXTENDS QWebSocketPeers

Text(data) == [op |-> "text", data |-> data]
Binary(data) == [op |-> "binary", data |-> data]
MCMessages == {Text(<<One, One, One, Lead, Trail>>), Binary(<<>>)}
MCPings == {<<One, One, One, One>>}
MCClosings == {[code |-> 1001, reason |-> <<One>>], [code |-> 1005, reason |-> <<>>],
               [code |-> 1000, reason |-> <<One, One>>]}
MCFarewells == [client |-> {Binary(<<>>)}, server |-> {}]
MCMaxSent == [client |-> 1, server |-> 0]
MCMaxPings == [client |-> 0, server |-> 1]

F(op, values) == [fin |-> TRUE, rsv |-> FALSE, op |-> op, form |-> "7", n |-> Len(values),
                  masked |-> FALSE, values |-> values]
Announcing(f, form, n) == [f EXCEPT !.form = form, !.n = n]

MCRawFrames ==
    { [F("text", <<One, Lead>>) EXCEPT !.fin = FALSE, !.masked = TRUE],
      F("continue", <<Trail>>), F("continue", <<One>>),
      [F("binary", <<One, One, One>>) EXCEPT !.fin = FALSE],
      [F("continue", <<Lead, Trail, One>>) EXCEPT !.fin = FALSE],
      F("text", <<>>), F("ping", <<One>>),
      [F("ping", <<>>) EXCEPT !.fin = FALSE],
      [F("text", <<>>) EXCEPT !.rsv = TRUE],
      F("reserved3", <<>>),
      Announcing(F("pong", <<>>), "16", Len7 + 1),
      Announcing(F("binary", <<One, One, One>>), "16", 3),
      Announcing(F("binary", <<One, One, One, One>>), "16", 4),
      Announcing(F("binary", <<One, One, One, One>>), "64", 4),
      Announcing(F("binary", <<One, One, One, One, One>>), "64", 5),
      Announcing(F("binary", <<>>), "64", MaxFrame + 1),
      Announcing(F("binary", <<>>), "64", Len63 + 1),
      F("close", <<>>), F("close", <<One>>),
      F("close", <<1002, LowByte>>), F("close", <<1005, LowByte>>),
      F("close", <<1000, LowByte, Lead>>) }
=============================================================================
