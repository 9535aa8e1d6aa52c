------------------------- MODULE MCQQmlWebSocketServer -------------------------
(* Two clients of a server that is used in each of the three ways: one     *)
(* sends any of five requests, the other a good one.                       *)
EXTENDS EchoServers, TLC
Good == createHandShakeRequest(FALSE, "good")
CONSTANTS c1, c2
MCRequests ==
    c1 :> {Good, createHandShakeRequest(FALSE, "evil"), [Good EXCEPT !.key = ""],
           [Good EXCEPT !.versions = <<8>>],
           [Good EXCEPT !.uri = "host", !.host = "", !.key = "other"]}
    @@ c2 :> {Good}
MCMaxCalls == [u \in Users |-> CASE u \in Programs \cup {"slot"} -> 1 [] u = "later" -> 2 [] u = "qml" -> 3]
=============================================================================
