----------------------------- MODULE NotkaServer -----------------------------
(***************************************************************************)
(* What the server does with the messages of its sessions: MsgHandler and  *)
(* the MsgRX classes, on the database layer of NotkaDb, with the periodic  *)
(* reconnect of the main thread under way.                                 *)
(*                                                                         *)
(* Messages are numbered in the order the main thread receives them, and a *)
(* handler has the number of its message. The pool takes runnables in that *)
(* order but runs up to MaxThreads of them, which compete for the session  *)
(* mutex and, inside, for Database::mutex. A step ends where another       *)
(* thread can see a difference: after each critical section of class Db    *)
(* and, in the two that write, between the statement and the commit.       *)
(* Connections that end are the matter of NotkaSessions: a handler does    *)
(* not look at the socket, so they change nothing here.                    *)
(***************************************************************************)
EXTENDS NotkaDb, Sequences, FiniteSets

CONSTANTS Clients,       \* web socket sessions
          Kinds,         \* kinds of messages that are sent
          MaxThreads,    \* thread_pool.maxThreadCount()
          MaxRequests,   \* bound: messages received
          MaxReconnects, \* bound: firings of the reconnect task
          MaxFaults      \* bound: times the MySQL server goes away

ASSUME ServerAssumption ==
    /\ MaxThreads \in Nat \ {0}
    /\ MaxRequests \in Nat
    /\ MaxReconnects \in Nat
    /\ MaxFaults \in Nat

\* Messages. login_bad is a login whose payload_len is not 64, save_short a
\* save whose payload_len is below 32, junk what demux_raw_msg does not know.
Bodies ==
    [kind : {"syn", "login_bad", "save_short", "junk"} \cap Kinds]
    \cup [kind : {"login"} \cap Kinds, title : Titles, password : Passwords]
    \cup [kind : {"save"} \cap Kinds, title : Titles, text : Texts]

VARIABLES
    reqs,       \* messages received
    phase,      \* how far the handler of each message is
    state,      \* WebSocketSession::state (user is written but never read)
    outbox,     \* replies posted to the main thread
    inbox,      \* history: replies the main thread has sent
    main,       \* the main thread: starting, in its loop, or where in Db::reconnect
    listening,  \* the end point listens for clients
    reconnects, \* reconnects started
    faults,     \* times MySQL went away
    saved,      \* history: the texts each title had, and the handlers they are by
    wrote       \* history: handlers whose statement was executed

vars == <<dbVars, reqs, phase, state, outbox, inbox, main, listening,
          reconnects, faults, saved, wrote>>

mainVars == <<main, listening, reconnects, faults>>
replyVars == <<outbox, inbox>>
histVars == <<saved, wrote>>

SessionStates == {"INIT", "LOGGED_IN", "NO_SUCH_USER", "WRONG_PASSWORD",
                  "REGISTERED", "REGISTER_FAIL"}

\* The constructor of EndPointWebSocket makes the server, which hears nothing yet.
NewEndPoint == listening = FALSE

Init ==
    /\ DbInit
    /\ NewEndPoint
    /\ reqs = <<>>
    /\ phase = <<>>
    /\ state = [c \in Clients |-> "INIT"]
    /\ outbox = <<>>
    /\ inbox = <<>>
    /\ main = "start"
    /\ reconnects = 0
    /\ faults = 0
    /\ saved = [t \in Titles |-> <<[text |-> notkas[t], by |-> 0]>>]
    /\ wrote = {}

Handlers == DOMAIN reqs
Client(h) == reqs[h].client
Body(h) == reqs[h].body
Kind(h) == Body(h).kind

\* The main thread terminated the process.
Alive == main # "aborted"

\* The mutex of session c: held by a handler in the middle of its message.
SessionUnlocked(c) ==
    \A h \in Handlers : Client(h) = c => phase[h] \notin {"commit", "fetch"}

Working == {h \in Handlers : phase[h] \in {"started", "commit", "fetch"}}

-----------------------------------------------------------------------------
(* Main thread.                                                            *)

\* EndPointWebSocket::open: the port may be taken, or the certificate or key
\* not be one that a client accepts.
open(succeeds) == listening' = succeeds

\* add_ws_server and ws_server_start_stop, which does not look at the result.
StartEndPoint == \E succeeds \in BOOLEAN : open(succeeds)

\* The constructor of Notka adds its end point and opens the database; when
\* that fails it throws, which ends the process.
StartUp ==
    /\ main = "start"
    /\ StartEndPoint
    /\ init_database
    /\ main' = IF conn' = "open" THEN "loop" ELSE "aborted"
    /\ UNCHANGED <<reqs, phase, state, replyVars, reconnects, faults, histVars>>

\* on_bin_msg_rx: takes the session mutex and starts a handler.
Receive(c, body) ==
    /\ main = "loop"
    /\ listening
    /\ SessionUnlocked(c)
    /\ Len(reqs) < MaxRequests
    /\ reqs' = Append(reqs, [client |-> c, body |-> body])
    /\ phase' = Append(phase, "queued")
    /\ UNCHANGED <<dbVars, state, replyVars, mainVars, histVars>>

\* EndPointWebSocket::bin_msg_tx for the oldest reply that was posted.
Deliver ==
    /\ main = "loop"
    /\ outbox # <<>>
    /\ inbox' = Append(inbox, Head(outbox))
    /\ outbox' = Tail(outbox)
    /\ UNCHANGED <<dbVars, reqs, phase, state, mainVars, histVars>>

\* Db::reconnect, at a firing of the reconnect task: close_database, ...
ReconnectClose ==
    /\ main = "loop"
    /\ reconnects < MaxReconnects
    /\ reconnects' = reconnects + 1
    /\ main' = "init_database"
    /\ close_database
    /\ UNCHANGED <<reqs, phase, state, replyVars, listening, faults, histVars>>

\* ... init_database, whose result is not looked at, ...
ReconnectInit ==
    /\ main = "init_database"
    /\ main' = "check"
    /\ init_database
    /\ UNCHANGED <<reqs, phase, state, replyVars, listening, reconnects,
                   faults, histVars>>

\* ... and, without Database::mutex, the check of the driver's last error. It
\* throws out of a slot, which ends the process.
ErrorIgnored == FALSE
ErrorSeen == driverError
ReconnectRetry ==
    /\ main = "check"
    /\ conn' = Connected
    /\ main' = IF ErrorSeen THEN "init_database" ELSE "loop"
    /\ UNCHANGED <<mysql, driverError, txn, tables, reqs, phase, state,
                   replyVars, listening, reconnects, faults, histVars>>

ReconnectCheck ==
    /\ main = "check"
    /\ conn' = Connected
    /\ main' = IF ErrorSeen THEN "aborted" ELSE "loop"
    /\ UNCHANGED <<mysql, driverError, txn, tables, reqs, phase, state,
                   replyVars, listening, reconnects, faults, histVars>>

-----------------------------------------------------------------------------
(* Threads of the pool.                                                    *)

\* A free thread takes the oldest runnable.
Start(h) ==
    /\ Alive
    /\ phase[h] = "queued"
    /\ \A g \in Handlers : g < h => phase[g] # "queued"
    /\ Cardinality(Working) < MaxThreads
    /\ phase' = [phase EXCEPT ![h] = "started"]
    /\ UNCHANGED <<dbVars, reqs, state, replyVars, mainVars, histVars>>

\* MsgHandler::run takes the session mutex for a message of this kind.
Begin(h, kind) ==
    /\ Alive
    /\ phase[h] = "started"
    /\ Kind(h) = kind
    /\ SessionUnlocked(Client(h))

\* The handler goes on to this phase; "done" releases the session mutex.
MoveTo(h, p) == phase' = [phase EXCEPT ![h] = p]

\* MsgTX::post and its overrides.
Post(h, kind, value) ==
    outbox' = Append(outbox, [to |-> h, kind |-> kind, value |-> value])

\* The second half of a message that needs no database.
Answered(h) ==
    /\ MoveTo(h, "done")
    /\ UNCHANGED <<dbVars, reqs, state, inbox, mainVars, histVars>>

\* demux_raw_msg returned nullptr: nothing is sent.
Junk(h) == Begin(h, "junk") /\ Answered(h) /\ UNCHANGED outbox

Syn(h) == Begin(h, "syn") /\ Post(h, "syn_ack", "") /\ Answered(h)

\* An early return without the ack.
LoginBadSilent(h) == Begin(h, "login_bad") /\ Answered(h) /\ UNCHANGED outbox

\* The ack carries whatever state the session is in.
LoginBad(h) ==
    /\ Begin(h, "login_bad")
    /\ Post(h, "login_ack", state[Client(h)])
    /\ Answered(h)

SaveShort(h) ==
    /\ Begin(h, "save_short")
    /\ Post(h, "save_ack", "ErrorTextLen")
    /\ Answered(h)

\* The session state a login answer leads to.
StateFor(res) == CASE res = "match"    -> "LOGGED_IN"
                   [] res = "no_user"  -> "NO_SUCH_USER"
                   [] res = "mismatch" -> "WRONG_PASSWORD"

\* Where process() goes after the ack: to the text if the login succeeded.
FetchAlways(res) == "fetch"
FetchIfLoggedIn(res) == IF res = "match" THEN "fetch" ELSE "done"

\* Whether a login in this session registers its title.
RegistersAgain(c) == state[c] \in {"NO_SUCH_USER", "REGISTER_FAIL"}
Registers(c) == state[c] = "NO_SUCH_USER"

\* MsgLogin::process of a session that does not register. When the query
\* throws, the session keeps its state and the client gets no answer.
Authenticate(h) ==
    LET c == Client(h)
        b == Body(h)
    IN /\ Begin(h, "login")
       /\ ~Registers(c)
       /\ \E res \in {"match", "no_user", "mismatch", "throw"} :
             /\ authenticate_user(b.title, b.password, res)
             /\ \/ /\ res = "throw"
                   /\ MoveTo(h, "done")
                   /\ UNCHANGED <<state, outbox>>
                \/ /\ res # "throw"
                   /\ state' = [state EXCEPT ![c] = StateFor(res)]
                   /\ Post(h, "login_ack", StateFor(res))
                   /\ MoveTo(h, FetchIfLoggedIn(res))
       /\ UNCHANGED <<reqs, inbox, mainVars, histVars>>

\* MsgLogin::process of a session whose last login found no such user.
Register(h) ==
    LET c == Client(h)
        b == Body(h)
    IN /\ Begin(h, "login")
       /\ Registers(c)
       /\ \/ /\ register_user(b.title, b.password, "commit")
             /\ MoveTo(h, "commit")
             /\ wrote' = wrote \cup {h}
             /\ UNCHANGED <<state, outbox>>
          \/ /\ register_user(b.title, b.password, "throw")
             /\ state' = [state EXCEPT ![c] = "REGISTER_FAIL"]
             /\ Post(h, "login_ack", "REGISTER_FAIL")
             /\ MoveTo(h, "done")
             /\ UNCHANGED wrote
       /\ UNCHANGED <<reqs, inbox, mainVars, saved>>

\* The state of a session after its title was registered.
StateRegistered(c) == [state EXCEPT ![c] = "REGISTERED"]

RegisterCommit(h) ==
    /\ Alive
    /\ phase[h] = "commit"
    /\ Kind(h) = "login"
    /\ commit
    /\ state' = StateRegistered(Client(h))
    /\ Post(h, "login_ack", "REGISTERED")
    /\ MoveTo(h, "done")
    /\ UNCHANGED <<reqs, inbox, mainVars, histVars>>

\* The stored text, which a login that succeeded sends after its ack.
FetchNotka(h) ==
    /\ Alive
    /\ phase[h] = "fetch"
    /\ \E res \in Texts \cup {NoText} :
          /\ get_notka(Body(h).title, res)
          /\ IF res = NoText THEN UNCHANGED outbox ELSE Post(h, "notka", res)
    /\ MoveTo(h, "done")
    /\ UNCHANGED <<reqs, state, inbox, mainVars, histVars>>

\* The error code of the ack, from the result of save_notka.
ErrForIgnored(res) == "Ok"
ErrFor(res) == IF res = "false" THEN "Fail" ELSE "Ok"

\* MsgSaveReq::process: the session's state and user are not looked at.
Save(h) ==
    LET b == Body(h)
    IN /\ Begin(h, "save")
       /\ \/ /\ save_notka(b.title, b.text, "commit")
             /\ MoveTo(h, "commit")
             /\ wrote' = wrote \cup {h}
             /\ UNCHANGED outbox
          \/ \E res \in {"true", "false"} :
                /\ save_notka(b.title, b.text, res)
                /\ Post(h, "save_ack", ErrFor(res))
                /\ MoveTo(h, "done")
                /\ UNCHANGED wrote
       /\ UNCHANGED <<reqs, state, inbox, mainVars, saved>>

SaveCommit(h) ==
    /\ Alive
    /\ phase[h] = "commit"
    /\ Kind(h) = "save"
    /\ commit
    /\ saved' = IF conn # "open" THEN saved
                ELSE [saved EXCEPT ![Body(h).title] =
                         Append(@, [text |-> Body(h).text, by |-> h])]
    /\ Post(h, "save_ack", ErrFor("true"))
    /\ MoveTo(h, "done")
    /\ UNCHANGED <<reqs, state, inbox, mainVars, wrote>>

-----------------------------------------------------------------------------
\* The MySQL server goes away or comes back.
Fault ==
    /\ Alive
    /\ \/ MysqlDown /\ faults < MaxFaults /\ faults' = faults + 1
       \/ MysqlUp /\ UNCHANGED faults
    /\ UNCHANGED <<reqs, phase, state, replyVars, main, listening,
                   reconnects, histVars>>

\* Nothing is left to do, or nobody is left to do it.
Quiet ==
    /\ \/ ~Alive
       \/ /\ main = "loop"
          /\ outbox = <<>>
          /\ listening => Len(reqs) = MaxRequests
          /\ \A h \in Handlers : phase[h] = "done"
    /\ UNCHANGED vars

MainStep == StartUp \/ Deliver \/ ReconnectInit \/ ReconnectCheck

HandlerStep(h) ==
    \/ Start(h)
    \/ Junk(h) \/ Syn(h) \/ LoginBad(h) \/ SaveShort(h)
    \/ Authenticate(h) \/ Register(h) \/ RegisterCommit(h) \/ FetchNotka(h)
    \/ Save(h) \/ SaveCommit(h)

Next ==
    \/ \E c \in Clients, body \in Bodies : Receive(c, body)
    \/ MainStep
    \/ ReconnectClose
    \/ \E h \in Handlers : HandlerStep(h)
    \/ Fault
    \/ Quiet

Spec == Init /\ [][Next]_vars

(***************************************************************************)
(* The event loop and each thread of the pool make progress. A thread that *)
(* waits for Database::mutex gets it in the end: its holder is a step from *)
(* releasing it, and no thread locks it for ever again (the bounds; QMutex *)
(* also hands over to a starving waiter). The session mutex likewise.      *)
(***************************************************************************)
Fairness ==
    /\ WF_vars(MainStep)
    /\ \A h \in 1..MaxRequests : WF_vars(h \in Handlers /\ HandlerStep(h))

FairSpec == Spec /\ Fairness

-----------------------------------------------------------------------------
(* Properties.                                                             *)

Replies ==
    [to : Nat, kind : {"syn_ack"}, value : {""}]
    \cup [to : Nat, kind : {"login_ack"}, value : SessionStates]
    \cup [to : Nat, kind : {"save_ack"}, value : {"Ok", "Fail", "ErrorTextLen"}]
    \cup [to : Nat, kind : {"notka"}, value : Texts]

SrvTypeOK ==
    /\ DbTypeOK
    /\ reqs \in Seq([client : Clients, body : Bodies])
    /\ phase \in Seq({"queued", "started", "commit", "fetch", "done"})
    /\ DOMAIN phase = DOMAIN reqs
    /\ state \in [Clients -> SessionStates]
    /\ outbox \in Seq(Replies) /\ inbox \in Seq(Replies)
    /\ main \in {"start", "loop", "init_database", "check", "aborted"}
    /\ listening \in BOOLEAN
    /\ reconnects \in 0..MaxReconnects
    /\ faults \in 0..MaxFaults
    /\ saved \in [Titles -> Seq([text : Texts \cup {NoText}, by : Nat])]
    /\ wrote \in SUBSET Handlers

\* Every reply so far, in the order it was posted.
Posted == inbox \o outbox
\* Where among them the replies to message h are.
RepliesTo(h) == {i \in DOMAIN Posted : Posted[i].to = h}
IsAck(r) == r.kind # "notka"
IsReply(r, kind, value) == r.kind = kind /\ r.value = value
\* The text of a handler's message was committed.
Stored(h) == \E t \in Titles : \E k \in DOMAIN saved[t] : saved[t][k].by = h

\* A handler was told this, now or earlier.
Told(h, kind, value) ==
    \E i \in DOMAIN Posted : Posted[i].to = h /\ IsReply(Posted[i], kind, value)

(* Every message but junk is answered with one ack once it is processed, a *)
(* text follows only an ack that says LOGGED_IN; no message is answered    *)
(* before. The exceptions are logins whose query was an error: they are    *)
(* dropped, and that takes a database that was lost or is reconnecting, or *)
(* a title the spliced SELECT cannot hold.                                 *)
Acks(h) == {i \in RepliesTo(h) : IsAck(Posted[i])}
TextsSent(h) == RepliesTo(h) \ Acks(h)
Dropped(h) == Kind(h) = "login" /\ (Body(h).title \in Unquotable \/ reconnects + faults > 0)
AnsweredOnce ==
    \A h \in Handlers :
        /\ \A i, j \in Acks(h) : i = j
        /\ \A i, j \in TextsSent(h) : i = j
        /\ \A j \in TextsSent(h) :
              \E i \in Acks(h) : i < j /\ IsReply(Posted[i], "login_ack", "LOGGED_IN")
        /\ phase[h] \in {"queued", "started", "commit"} => RepliesTo(h) = {}
        /\ phase[h] = "fetch" => Acks(h) # {} /\ TextsSent(h) = {}
        /\ phase[h] = "done" =>
              \/ Acks(h) # {} /\ Kind(h) # "junk"
              \/ Acks(h) = {} /\ Kind(h) = "junk"
              \/ Acks(h) = {} /\ Dropped(h)

(* A client that is told its text is not saved can rely on it: the text of *)
(* that message is not in the table's history.                             *)
FailMeansNotStored ==
    \A h \in Handlers :
        Told(h, "save_ack", "Fail") \/ Told(h, "save_ack", "ErrorTextLen")
            => ~Stored(h)

(* "OK. Saved.": the text of a save that was acknowledged was committed.   *)
OkMeansStored ==
    \A h \in Handlers : Told(h, "save_ack", "Ok") => Stored(h)

(* Even when MySQL comes and goes: an Ok that leaves the server stands for *)
(* a statement that was executed. (save_notka returns true on a connection *)
(* that is not open; the server ends before such an answer is sent.)       *)
SentOkWasExecuted ==
    \A i \in DOMAIN inbox :
        IsReply(inbox[i], "save_ack", "Ok") => inbox[i].to \in wrote

(* A title is registered at most once, by whichever session and thread.    *)
RegisteredOnce ==
    \A g, h \in Handlers :
        /\ Kind(g) = "login" /\ Told(g, "login_ack", "REGISTERED")
        /\ Kind(h) = "login" /\ Told(h, "login_ack", "REGISTERED")
        /\ Body(g).title = Body(h).title
        => g = h

(* A session registers only right after it was told that there is no such  *)
(* user: REGISTERED and REGISTER_FAIL follow NO_SUCH_USER in its replies   *)
(* to well-formed logins.                                                  *)
LoginAcks(c) ==
    {i \in DOMAIN Posted : /\ Posted[i].kind = "login_ack"
                           /\ Client(Posted[i].to) = c /\ Kind(Posted[i].to) = "login"}
RegisterAfterOffer ==
    \A c \in Clients : \A i \in LoginAcks(c) :
        Posted[i].value \in {"REGISTERED", "REGISTER_FAIL"} =>
            \E j \in LoginAcks(c) :
                /\ j < i /\ Posted[j].value = "NO_SUCH_USER"
                /\ \A k \in LoginAcks(c) : k <= j \/ i <= k

(* Only the right password opens a notka: a session that was told          *)
(* LOGGED_IN for a title gave the password that title was created with.    *)
LoginMatches ==
    \A h \in Handlers :
        Kind(h) = "login" /\ Told(h, "login_ack", "LOGGED_IN")
            => users[Body(h).title] = Body(h).password

(* What logins are told is sound, whichever sessions race for a title and  *)
(* whatever a session was told before: one of them creates it, only after  *)
(* its session was offered to, and only its password opens it.             *)
LoginsAreSound == RegisteredOnce /\ RegisterAfterOffer /\ LoginMatches

(* An answer about a save that leaves the server can be relied on, even    *)
(* when MySQL comes and goes around a reconnect.                           *)
AnswersAreTrue == FailMeansNotStored /\ SentOkWasExecuted

(* Between two reconnects the connection is usable: outside of reconnect,  *)
(* when the server is up, it is never absent nor "not open".               *)
ReconnectRestores == main = "loop" => conn \in {"open", "stale"}

(* The save the user clicked last wins: when every save of a title came    *)
(* from one session and all were acknowledged, the text of the last one is *)
(* what the next login will get.                                           *)
LatestSaveWins ==
    \A h \in Handlers :
        LET SameTitle == {g \in Handlers : Kind(g) = "save"
                                           /\ Body(g).title = Body(h).title}
        IN /\ Kind(h) = "save"
           /\ \A g \in SameTitle : /\ g <= h
                                    /\ Client(g) = Client(h)
                                    /\ Told(g, "save_ack", "Ok")
           => notkas[Body(h).title] = Body(h).text

(* Every message that asks for an answer gets one sent, unless the process *)
(* ends or (a login) the query is one that can be an error.                *)
Unanswered(h) ==
    /\ h \in Handlers
    /\ Kind(h) # "junk"
    /\ ~Dropped(h)
    /\ \A i \in DOMAIN inbox : inbox[i].to # h
RequestAnswered ==
    \A h \in 1..MaxRequests : Unanswered(h) ~> ~Unanswered(h) \/ ~Alive

(* The start, and each reconnect, ends: the loop runs with a connection    *)
(* that can be used, or the process is gone, whatever the pool does with   *)
(* the connection meanwhile.                                               *)
ReconnectEnds ==
    /\ main # "loop" ~> main \in {"loop", "aborted"}
    /\ []ReconnectRestores

(* Refinement: with MySQL up, the server is a NotkaStore. A write takes    *)
(* effect, and is answered, at its commit; a delivery, a step of the pool  *)
(* and a step of the reconnect are invisible.                              *)
Store == INSTANCE NotkaStore WITH
    asked <- [h \in Handlers |-> [client |-> Client(h), body |-> Body(h)]],
    stage <- [h \in Handlers |-> CASE phase[h] = "done"  -> "done"
                                   [] phase[h] = "fetch" -> "show"
                                   [] OTHER              -> "asked"],
    answers <- Posted
StoreSpec == Store!Spec
=============================================================================
