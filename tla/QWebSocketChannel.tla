-------------------------- MODULE QWebSocketChannel --------------------------
(***************************************************************************)
(* What two connected web sockets promise their users: each end receives   *)
(* the messages of the other whole, once and in the order they were sent,  *)
(* possibly not all of them, and once an end is closed it neither sends    *)
(* nor receives: what its user still tries to send is not received.        *)
(***************************************************************************)
EXTENDS Naturals, Sequences

CONSTANT Ends

Other(e) == CHOOSE d \in Ends : d # e

VARIABLES
    sent,    \* sent[e]: the messages that e has sent
    rcvd,    \* rcvd[e]: the messages that e's user was given
    open     \* open[e]: e is not closed

vars == <<sent, rcvd, open>>

Init ==
    /\ sent = [e \in Ends |-> <<>>]
    /\ rcvd = [e \in Ends |-> <<>>]
    /\ open = [e \in Ends |-> TRUE]

\* e sends a message, whatever it is.
Send(e) ==
    /\ open[e]
    /\ \E m \in {sent'[e][i] : i \in DOMAIN sent'[e]} : sent' = [sent EXCEPT ![e] = Append(@, m)]
    /\ UNCHANGED <<rcvd, open>>

Receive(e) ==
    /\ open[e]
    /\ Len(rcvd[e]) < Len(sent[Other(e)])
    /\ rcvd' = [rcvd EXCEPT ![e] = Append(@, sent[Other(e)][Len(@) + 1])]
    /\ UNCHANGED <<sent, open>>

Close(e) ==
    /\ open' = [open EXCEPT ![e] = FALSE]
    /\ UNCHANGED <<sent, rcvd>>

Next == \E e \in Ends : Receive(e) \/ Close(e) \/ Send(e)

Spec == Init /\ [][Next]_vars
=============================================================================
