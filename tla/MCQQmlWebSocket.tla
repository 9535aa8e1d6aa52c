--------------------------- MODULE MCQQmlWebSocket ---------------------------
(***************************************************************************)
(* The answers a server may give: the right one, one with a wrong key, one *)
(* without the other two headers, one in an HTTP version that cannot be    *)
(* upgraded, a refusal without any headers and one with all of them, and   *)
(* no answer of HTTP at all.                                               *)
(***************************************************************************)
EXTENDS EchoClients

Both(key) == [key |-> key, upgrade |-> TRUE, connection |-> TRUE]

MCResponses ==
    {[status |-> 101, http |-> 11, headers |-> Both("right")],
     [status |-> 101, http |-> 11, headers |-> Both("wrong")],
     [status |-> 101, http |-> 11, headers |-> [NoHeaders EXCEPT !.key = "right"]],
     [status |-> 101, http |-> 10, headers |-> Both("right")],
     [status |-> 503, http |-> 11, headers |-> NoHeaders],
     [status |-> 503, http |-> 11, headers |-> Both("right")],
     [status |-> NoNumber, http |-> 11, headers |-> NoHeaders]}
=============================================================================
