------------------------- MODULE NotkaServer_proofs -------------------------
(***************************************************************************)
(* Proofs about NotkaServer: its type invariant, what the server's answers *)
(* about saves are worth, that only the password of a title opens it, that *)
(* every message gets one answer, that a session registers a title only    *)
(* right after it was offered to, and that - while MySQL stays up - the    *)
(* server implements NotkaStore.                                           *)
(***************************************************************************)
EXTENDS NotkaServer, SequenceTheorems, TLAPS

-----------------------------------------------------------------------------
(* Types.                                                                  *)

(* What a message of each kind carries.                                    *)
LEMMA BodyFields ==
    ASSUME NEW b \in Bodies
    PROVE  /\ b.kind \in {"login_bad", "syn", "save_short", "junk", "login", "save"}
           /\ b.kind = "login" => b.title \in Titles /\ b.password \in Passwords
           /\ b.kind = "save" => b.title \in Titles /\ b.text \in Texts
<1>1. CASE b \in [kind : {"syn", "login_bad", "save_short", "junk"} \cap Kinds]
  BY <1>1
<1>2. CASE b \in [kind : {"login"} \cap Kinds, title : Titles, password : Passwords]
  BY <1>2
<1>3. CASE b \in [kind : {"save"} \cap Kinds, title : Titles, text : Texts]
  BY <1>3
<1>4. QED
  BY <1>1, <1>2, <1>3 DEF Bodies

(* A handler has a message, a client and a phase.                          *)
LEMMA HandlerTypes ==
    ASSUME SrvTypeOK, NEW h \in Handlers
    PROVE  /\ Client(h) \in Clients
           /\ Body(h) \in Bodies
           /\ h \in Nat
           /\ DOMAIN phase = Handlers
           /\ Kind(h) = "login" => Body(h).title \in Titles /\ Body(h).password \in Passwords
           /\ Kind(h) = "save" => Body(h).title \in Titles /\ Body(h).text \in Texts
<1>0. reqs \in Seq([client : Clients, body : Bodies]) /\ h \in 1..Len(reqs)
  BY DEF SrvTypeOK, Handlers
<1>1. reqs[h] \in [client : Clients, body : Bodies]
  BY <1>0, ElementOfSeq
<1>2. Client(h) \in Clients /\ Body(h) \in Bodies
  BY <1>1 DEF Client, Body
<1>3. h \in Nat /\ DOMAIN phase = Handlers
  BY DEF SrvTypeOK, Handlers
<1>4. QED
  BY <1>2, <1>3, BodyFields DEF Kind

(* Every step of class Db keeps the connection and the tables well typed.  *)
LEMMA UseTypes ==
    ASSUME DbTypeOK, Use
    PROVE  /\ mysql' \in BOOLEAN /\ driverError' \in BOOLEAN
           /\ conn' \in {"absent", "closed", "open", "stale"}
BY DEF DbTypeOK, Use, Connected

LEMMA AuthenticateTypes ==
    ASSUME DbTypeOK, NEW t, NEW p, NEW res, authenticate_user(t, p, res)
    PROVE  DbTypeOK'
<1>1. CASE UNCHANGED dbVars
  BY <1>1 DEF DbTypeOK, dbVars
<1>2. CASE Use /\ UNCHANGED <<txn, tables>>
  BY <1>2, UseTypes DEF DbTypeOK, tables
<1>3. QED
  BY <1>1, <1>2 DEF authenticate_user

LEMMA RegisterTypes ==
    ASSUME DbTypeOK, NEW t \in Titles, NEW p \in Passwords, NEW res, register_user(t, p, res)
    PROVE  DbTypeOK'
<1>1. CASE UNCHANGED dbVars
  BY <1>1 DEF DbTypeOK, dbVars
<1>2. CASE Use /\ UNCHANGED <<txn, tables>>
  BY <1>2, UseTypes DEF DbTypeOK, tables
<1>3. CASE /\ Use
           /\ txn' = [table |-> "users", key |-> t, value |-> p]
           /\ UNCHANGED tables
  BY <1>3, UseTypes DEF DbTypeOK, tables
<1>4. QED
  BY <1>1, <1>2, <1>3 DEF register_user

LEMMA SaveTypes ==
    ASSUME DbTypeOK, NEW t \in Titles, NEW x \in Texts, NEW res, save_notka(t, x, res)
    PROVE  DbTypeOK'
<1>1. CASE Use /\ UNCHANGED <<txn, tables>>
  BY <1>1, UseTypes DEF DbTypeOK, tables
<1>2. CASE /\ Use
           /\ txn' = [table |-> "notkas", key |-> t, value |-> x]
           /\ UNCHANGED tables
  BY <1>2, UseTypes DEF DbTypeOK, tables
<1>3. QED
  BY <1>1, <1>2 DEF save_notka

LEMMA CommitTypes ==
    ASSUME DbTypeOK, commit
    PROVE  DbTypeOK'
<1>1. mysql' \in BOOLEAN /\ driverError' \in BOOLEAN /\ conn' = conn /\ txn' = NoTxn
  BY DEF DbTypeOK, commit
<1>2. users' \in [Titles -> Passwords \cup {NoPassword}]
  BY DEF DbTypeOK, commit, Written, tables
<1>3. notkas' \in [Titles -> Texts \cup {NoText}]
  BY DEF DbTypeOK, commit, Written, tables
<1>4. QED
  BY <1>1, <1>2, <1>3 DEF DbTypeOK

(* A reply that is posted leaves the queue well typed.                     *)
LEMMA PostTypes ==
    ASSUME outbox \in Seq(Replies), NEW h \in Nat, NEW k, NEW v,
           [to |-> h, kind |-> k, value |-> v] \in Replies,
           Post(h, k, v)
    PROVE  outbox' \in Seq(Replies)
BY DEF Post

(* A handler's step to another phase.                                      *)
LEMMA MoveTypes ==
    ASSUME SrvTypeOK, NEW h \in Handlers,
           NEW p \in {"queued", "started", "commit", "fetch", "done"}, MoveTo(h, p)
    PROVE  /\ phase' \in Seq({"queued", "started", "commit", "fetch", "done"})
           /\ DOMAIN phase' = DOMAIN phase
BY DEF SrvTypeOK, MoveTo, Handlers

(* The main thread's steps.                                                *)
LEMMA MainTypes ==
    ASSUME SrvTypeOK, MainStep \/ ReconnectClose \/ Fault
    PROVE  SrvTypeOK'
<1> USE ServerAssumption DEF ServerAssumption
<1>1. CASE StartUp
  <2>1. DbTypeOK'
    BY <1>1 DEF StartUp, init_database, DbTypeOK, SrvTypeOK, tables
  <2>2. QED
    BY <1>1, <2>1 DEF StartUp, StartEndPoint, open, SrvTypeOK, replyVars, histVars, Handlers
<1>2. CASE Deliver
  <2>1. DbTypeOK'
    BY <1>2 DEF Deliver, DbTypeOK, SrvTypeOK, dbVars
  <2>2. Head(outbox) \in Replies /\ outbox' \in Seq(Replies)
    BY <1>2, HeadTailProperties DEF Deliver, SrvTypeOK
  <2>3. inbox' \in Seq(Replies)
    BY <1>2, <2>2, AppendProperties DEF Deliver, SrvTypeOK
  <2>4. QED
    BY <1>2, <2>1, <2>2, <2>3 DEF Deliver, SrvTypeOK, mainVars, histVars, Handlers
<1>3. CASE ReconnectClose
  <2>1. DbTypeOK'
    BY <1>3 DEF ReconnectClose, close_database, DbTypeOK, SrvTypeOK, tables
  <2>2. reconnects' \in 0..MaxReconnects
    BY <1>3 DEF ReconnectClose, SrvTypeOK
  <2>3. main' = "init_database"
    BY <1>3 DEF ReconnectClose
  <2>4. UNCHANGED <<reqs, phase, state, outbox, inbox, listening, faults, saved, wrote>>
    BY <1>3 DEF ReconnectClose, replyVars, histVars
  <2>5. QED
    BY <2>1, <2>2, <2>3, <2>4 DEF SrvTypeOK, Handlers
<1>4. CASE ReconnectInit
  <2>1. DbTypeOK'
    BY <1>4 DEF ReconnectInit, init_database, DbTypeOK, SrvTypeOK, tables
  <2>2. QED
    BY <1>4, <2>1 DEF ReconnectInit, SrvTypeOK, replyVars, histVars, Handlers
<1>5. CASE ReconnectCheck
  <2>1. DbTypeOK'
    BY <1>5 DEF ReconnectCheck, Connected, DbTypeOK, SrvTypeOK, tables
  <2>2. QED
    BY <1>5, <2>1 DEF ReconnectCheck, SrvTypeOK, replyVars, histVars, Handlers
<1>6. CASE Fault
  <2>1. DbTypeOK'
    BY <1>6 DEF Fault, MysqlDown, MysqlUp, DbTypeOK, SrvTypeOK, tables
  <2>2. faults' \in 0..MaxFaults
    BY <1>6 DEF Fault, SrvTypeOK
  <2>3. UNCHANGED <<reqs, phase, state, outbox, inbox, main, listening, reconnects, saved, wrote>>
    BY <1>6 DEF Fault, replyVars, histVars
  <2>4. QED
    BY <2>1, <2>2, <2>3 DEF SrvTypeOK, Handlers
<1>7. QED
  BY <1>1, <1>2, <1>3, <1>4, <1>5, <1>6 DEF MainStep

(* A frame arrives.                                                        *)
LEMMA ReceiveTypes ==
    ASSUME SrvTypeOK, NEW c \in Clients, NEW body \in Bodies, Receive(c, body)
    PROVE  SrvTypeOK'
<1> DEFINE M == [client : Clients, body : Bodies]
           P == {"queued", "started", "commit", "fetch", "done"}
<1>1. DbTypeOK'
  BY DEF Receive, DbTypeOK, SrvTypeOK, dbVars
<1>2. reqs \in Seq(M) /\ phase \in Seq(P) /\ DOMAIN phase = DOMAIN reqs
  BY DEF SrvTypeOK
<1>3. [client |-> c, body |-> body] \in M /\ "queued" \in P
  OBVIOUS
<1> HIDE DEF M, P
<1>4. /\ reqs' = Append(reqs, [client |-> c, body |-> body])
      /\ phase' = Append(phase, "queued")
  BY DEF Receive
<1>5. reqs' \in Seq(M) /\ phase' \in Seq(P) /\ DOMAIN phase' = DOMAIN reqs'
      /\ DOMAIN reqs \subseteq DOMAIN reqs'
  BY <1>2, <1>3, <1>4
<1>6. UNCHANGED <<state, outbox, inbox, main, listening, reconnects, faults, saved, wrote>>
  BY DEF Receive, replyVars, mainVars, histVars
<1>7. QED
  BY <1>1, <1>5, <1>6 DEF SrvTypeOK, Handlers, M, P

(* The rest of a handler's step: what it does besides to the database, the *)
(* phase, the outbox, the session and the history.                         *)
LEMMA HandlerTypeRule ==
    ASSUME SrvTypeOK, NEW h \in Handlers,
           DbTypeOK',
           NEW p \in {"queued", "started", "commit", "fetch", "done"}, MoveTo(h, p),
           state' \in [Clients -> SessionStates],
           outbox' \in Seq(Replies),
           saved' \in [Titles -> Seq([text : Texts \cup {NoText}, by : Nat])],
           wrote' \in SUBSET Handlers,
           UNCHANGED <<reqs, inbox, mainVars>>
    PROVE  SrvTypeOK'
<1>1. /\ phase' \in Seq({"queued", "started", "commit", "fetch", "done"})
      /\ DOMAIN phase' = DOMAIN phase
  BY MoveTypes
<1>2. UNCHANGED <<reqs, inbox, main, listening, reconnects, faults>>
  BY DEF mainVars
<1>3. QED
  BY <1>1, <1>2 DEF SrvTypeOK, Handlers

(* Replies that handlers post.                                             *)
LEMMA RepliesPosted ==
    ASSUME NEW h \in Nat
    PROVE  /\ [to |-> h, kind |-> "syn_ack", value |-> ""] \in Replies
           /\ \A v \in SessionStates : [to |-> h, kind |-> "login_ack", value |-> v] \in Replies
           /\ \A v \in {"Ok", "Fail", "ErrorTextLen"} :
                 [to |-> h, kind |-> "save_ack", value |-> v] \in Replies
           /\ \A v \in Texts : [to |-> h, kind |-> "notka", value |-> v] \in Replies
BY DEF Replies

LEMMA HandlerStepTypes ==
    ASSUME SrvTypeOK, NEW h \in Handlers, HandlerStep(h)
    PROVE  SrvTypeOK'
<1> DEFINE P == {"queued", "started", "commit", "fetch", "done"}
<1>1. /\ DbTypeOK /\ outbox \in Seq(Replies) /\ state \in [Clients -> SessionStates]
      /\ saved \in [Titles -> Seq([text : Texts \cup {NoText}, by : Nat])]
      /\ wrote \in SUBSET Handlers
  BY DEF SrvTypeOK
<1>2. /\ Client(h) \in Clients /\ h \in Nat
      /\ Kind(h) = "login" => Body(h).title \in Titles /\ Body(h).password \in Passwords
      /\ Kind(h) = "save" => Body(h).title \in Titles /\ Body(h).text \in Texts
  BY HandlerTypes
<1>3. \A v \in SessionStates : Post(h, "login_ack", v) => outbox' \in Seq(Replies)
  BY <1>1, <1>2, RepliesPosted, PostTypes
<1>4. \A v \in {"Ok", "Fail", "ErrorTextLen"} : Post(h, "save_ack", v) => outbox' \in Seq(Replies)
  BY <1>1, <1>2, RepliesPosted, PostTypes
<1>5. ASSUME UNCHANGED dbVars PROVE DbTypeOK'
  BY <1>1, <1>5 DEF DbTypeOK, dbVars
<1> HIDE DEF P
<1>6. CASE Start(h)
  <2>1. MoveTo(h, "started") /\ UNCHANGED dbVars
        /\ UNCHANGED <<reqs, inbox, mainVars, state, outbox, saved, wrote>>
    BY <1>6 DEF Start, MoveTo, replyVars, histVars
  <2>2. QED
    BY <2>1, <1>1, <1>5, HandlerTypeRule
<1>7. CASE Junk(h) \/ Syn(h) \/ LoginBad(h) \/ SaveShort(h)
  <2>1. MoveTo(h, "done") /\ UNCHANGED dbVars
        /\ UNCHANGED <<reqs, inbox, mainVars, state, saved, wrote>>
    BY <1>7 DEF Junk, Syn, LoginBad, SaveShort, Answered, histVars
  <2>2. state[Client(h)] \in SessionStates
    BY <1>1, <1>2
  <2>3. Syn(h) => outbox' \in Seq(Replies)
    BY <1>1, <1>2, RepliesPosted, PostTypes DEF Syn
  <2>4. outbox' \in Seq(Replies)
    BY <1>7, <1>1, <1>3, <1>4, <2>2, <2>3 DEF Junk, LoginBad, SaveShort
  <2>5. QED
    BY <2>1, <2>4, <1>1, <1>5, HandlerTypeRule
<1>8. CASE Authenticate(h)
  <2>1. DbTypeOK'
    BY <1>1, <1>8, AuthenticateTypes DEF Authenticate
  <2>2. UNCHANGED <<reqs, inbox, mainVars, saved, wrote>>
    BY <1>8 DEF Authenticate, histVars
  <2>3. PICK res \in {"match", "no_user", "mismatch", "throw"} :
            \/ MoveTo(h, "done") /\ UNCHANGED <<state, outbox>>
            \/ /\ res # "throw"
               /\ state' = [state EXCEPT ![Client(h)] = StateFor(res)]
               /\ Post(h, "login_ack", StateFor(res))
               /\ MoveTo(h, FetchIfLoggedIn(res))
    BY <1>8 DEF Authenticate
  <2>4. res # "throw" => StateFor(res) \in SessionStates
    BY DEF StateFor, SessionStates
  <2>5. FetchIfLoggedIn(res) \in {"fetch", "done"}
    BY DEF FetchIfLoggedIn
  <2>6. state' \in [Clients -> SessionStates] /\ outbox' \in Seq(Replies)
    BY <2>3, <2>4, <1>1, <1>2, <1>3
  <2>7. \E p \in {"queued", "started", "commit", "fetch", "done"} : MoveTo(h, p)
    BY <2>3, <2>5
  <2>8. QED
    BY <2>1, <2>2, <2>6, <2>7, <1>1, HandlerTypeRule
<1>9. CASE Register(h)
  <2>1. /\ Kind(h) = "login"
        /\ UNCHANGED <<reqs, inbox, mainVars, saved>>
        /\ \E res : register_user(Body(h).title, Body(h).password, res)
    BY <1>9 DEF Register, Begin
  <2>2. DbTypeOK'
    BY <2>1, <1>1, <1>2, RegisterTypes
  <2>3. "REGISTER_FAIL" \in SessionStates
    BY DEF SessionStates
  <2>4. /\ state' \in [Clients -> SessionStates] /\ outbox' \in Seq(Replies)
        /\ wrote' \in SUBSET Handlers
        /\ \E p \in {"queued", "started", "commit", "fetch", "done"} : MoveTo(h, p)
    <3>1. CASE /\ MoveTo(h, "commit") /\ wrote' = wrote \cup {h}
               /\ UNCHANGED <<state, outbox>>
      BY <3>1, <1>1
    <3>2. CASE /\ state' = [state EXCEPT ![Client(h)] = "REGISTER_FAIL"]
               /\ Post(h, "login_ack", "REGISTER_FAIL")
               /\ MoveTo(h, "done") /\ UNCHANGED wrote
      BY <3>2, <2>3, <1>1, <1>2, <1>3
    <3>3. QED
      BY <1>9, <3>1, <3>2 DEF Register
  <2>5. QED
    BY <2>1, <2>2, <2>4, <1>1, HandlerTypeRule
<1>10. CASE RegisterCommit(h)
  <2>1. DbTypeOK' /\ MoveTo(h, "done") /\ UNCHANGED <<reqs, inbox, mainVars, saved, wrote>>
    BY <1>10, <1>1, CommitTypes DEF RegisterCommit, histVars
  <2>2. "REGISTERED" \in SessionStates
    BY DEF SessionStates
  <2>3. state' \in [Clients -> SessionStates] /\ outbox' \in Seq(Replies)
    BY <1>10, <2>2, <1>1, <1>2, <1>3 DEF RegisterCommit, StateRegistered
  <2>4. QED
    BY <2>1, <2>3, <1>1, HandlerTypeRule
<1>11. CASE FetchNotka(h)
  <2>1. PICK res \in Texts \cup {NoText} :
            /\ get_notka(Body(h).title, res)
            /\ IF res = NoText THEN UNCHANGED outbox ELSE Post(h, "notka", res)
    BY <1>11 DEF FetchNotka
  <2>2. DbTypeOK'
    BY <2>1, <1>1, UseTypes DEF get_notka, DbTypeOK, tables
  <2>3. outbox' \in Seq(Replies)
    BY <2>1, <1>1, <1>2, RepliesPosted, PostTypes
  <2>4. MoveTo(h, "done") /\ UNCHANGED <<reqs, state, inbox, mainVars, saved, wrote>>
    BY <1>11 DEF FetchNotka, histVars
  <2>5. QED
    BY <2>2, <2>3, <2>4, <1>1, HandlerTypeRule
<1>12. CASE Save(h)
  <2>1. /\ Kind(h) = "save"
        /\ UNCHANGED <<reqs, state, inbox, mainVars, saved>>
        /\ \E res : save_notka(Body(h).title, Body(h).text, res)
    BY <1>12 DEF Save, Begin
  <2>2. DbTypeOK'
    BY <2>1, <1>1, <1>2, SaveTypes
  <2>3. /\ outbox' \in Seq(Replies) /\ wrote' \in SUBSET Handlers
        /\ \E p \in {"queued", "started", "commit", "fetch", "done"} : MoveTo(h, p)
    <3>1. CASE /\ MoveTo(h, "commit") /\ wrote' = wrote \cup {h} /\ UNCHANGED outbox
      BY <3>1, <1>1
    <3>2. CASE /\ \E res : Post(h, "save_ack", ErrFor(res))
               /\ MoveTo(h, "done") /\ UNCHANGED wrote
      <4>1. \A res : ErrFor(res) \in {"Ok", "Fail", "ErrorTextLen"}
        BY DEF ErrFor
      <4>2. QED
        BY <3>2, <4>1, <1>1, <1>4
    <3>3. QED
      BY <1>12, <3>1, <3>2 DEF Save
  <2>4. QED
    BY <2>1, <2>2, <2>3, <1>1, HandlerTypeRule
<1>13. CASE SaveCommit(h)
  <2>1. /\ Kind(h) = "save" /\ DbTypeOK' /\ MoveTo(h, "done")
        /\ UNCHANGED <<reqs, state, inbox, mainVars, wrote>>
    BY <1>13, <1>1, CommitTypes DEF SaveCommit
  <2>2. outbox' \in Seq(Replies)
    BY <1>13, <1>4 DEF SaveCommit, ErrFor
  <2>3. saved' \in [Titles -> Seq([text : Texts \cup {NoText}, by : Nat])]
    <3>1. [text |-> Body(h).text, by |-> h] \in [text : Texts \cup {NoText}, by : Nat]
      BY <2>1, <1>2
    <3>2. saved[Body(h).title] \in Seq([text : Texts \cup {NoText}, by : Nat])
      BY <2>1, <1>1, <1>2
    <3>3. Append(saved[Body(h).title], [text |-> Body(h).text, by |-> h])
              \in Seq([text : Texts \cup {NoText}, by : Nat])
      BY <3>1, <3>2, AppendProperties
    <3>4. \/ saved' = saved
          \/ saved' = [saved EXCEPT ![Body(h).title] =
                           Append(@, [text |-> Body(h).text, by |-> h])]
      BY <1>13 DEF SaveCommit
    <3>5. QED
      BY <3>3, <3>4, <1>1
  <2>4. QED
    BY <2>1, <2>2, <2>3, <1>1, HandlerTypeRule
<1>14. QED
  BY <1>6, <1>7, <1>8, <1>9, <1>10, <1>11, <1>12, <1>13 DEF HandlerStep

LEMMA NextTypes == SrvTypeOK /\ [Next]_vars => SrvTypeOK'
<1> SUFFICES ASSUME SrvTypeOK, [Next]_vars PROVE SrvTypeOK'
  OBVIOUS
<1>1. CASE UNCHANGED vars
  BY <1>1 DEF vars, dbVars, SrvTypeOK, DbTypeOK, Handlers
<1>2. CASE Quiet
  BY <1>1, <1>2 DEF Quiet
<1>3. QED
  BY <1>1, <1>2, ReceiveTypes, MainTypes, HandlerStepTypes DEF Next

LEMMA InitTypes == Init => SrvTypeOK
<1> SUFFICES ASSUME Init PROVE SrvTypeOK
  OBVIOUS
<1>1. DbTypeOK
  BY DEF Init, DbInit, DbTypeOK
<1>2. 0 \in 0..MaxReconnects /\ 0 \in 0..MaxFaults
  BY ServerAssumption DEF ServerAssumption
<1>3. saved \in [Titles -> Seq([text : Texts \cup {NoText}, by : Nat])]
  BY DEF Init, DbInit
<1>4. state \in [Clients -> SessionStates]
  BY DEF Init, SessionStates
<1>5. /\ reqs = <<>> /\ phase = <<>> /\ outbox = <<>> /\ inbox = <<>>
      /\ main = "start" /\ listening = FALSE /\ reconnects = 0 /\ faults = 0 /\ wrote = {}
  BY DEF Init, NewEndPoint
<1>6. DOMAIN phase = DOMAIN reqs /\ wrote \in SUBSET Handlers
  BY <1>5
<1>7. /\ reqs \in Seq([client : Clients, body : Bodies])
      /\ phase \in Seq({"queued", "started", "commit", "fetch", "done"})
      /\ outbox \in Seq(Replies) /\ inbox \in Seq(Replies)
  BY <1>5, EmptySeq
<1>8. QED
  BY <1>1, <1>2, <1>3, <1>4, <1>5, <1>6, <1>7 DEF SrvTypeOK

(* Every reachable state of the server is well typed.                      *)
THEOREM TypeCorrect == Spec => []SrvTypeOK
<1>1. QED
  BY InitTypes, NextTypes, PTL DEF Spec

-----------------------------------------------------------------------------
(* What answers are worth.  The invariant: every reply posted is true of   *)
(* the tables' history; an Ok for a statement that did not run can only    *)
(* have been posted when the reconnect is bound to end the process.        *)

Good(r) ==
    /\ r.to \in Handlers
    /\ r.kind = "save_ack" => phase[r.to] = "done"
    /\ r.kind = "save_ack" /\ r.value \in {"Fail", "ErrorTextLen"} => ~Stored(r.to)
    /\ IsReply(r, "login_ack", "LOGGED_IN") /\ Kind(r.to) = "login" =>
           users[Body(r.to).title] = Body(r.to).password

Executed(r) == IsReply(r, "save_ack", "Ok") => r.to \in wrote

\* The check that follows will see the error, or has.
Doomed == driverError /\ main \in {"check", "aborted"}

Sent(r) == \E i \in DOMAIN inbox : inbox[i] = r
Waiting(r) == \E i \in DOMAIN outbox : outbox[i] = r

RepliesInv ==
    \A r \in Replies :
        /\ Sent(r) => Good(r) /\ Executed(r)
        /\ Waiting(r) => Good(r) /\ (Executed(r) \/ Doomed)

ConnInv ==
    /\ conn = "closed" => Doomed
    /\ conn = "absent" => main \in {"start", "init_database"}

WritesInv ==
    /\ txn # NoTxn /\ txn.table = "users" => users[txn.key] = NoPassword
    /\ \A h \in Handlers : phase[h] = "commit" => h \in wrote
    /\ \A h \in Handlers : Stored(h) => phase[h] = "done"
    /\ \A t \in Titles : \A k \in DOMAIN saved[t] : saved[t][k].by \in Handlers \cup {0}

AnswerInv == RepliesInv /\ ConnInv /\ WritesInv

(* What no step undoes.                                                    *)
Keeps ==
    /\ Handlers \subseteq Handlers'
    /\ \A g \in Handlers : reqs'[g] = reqs[g]
    /\ \A g \in Handlers : phase[g] = "done" => phase'[g] = "done"
    /\ \A g \in Handlers : phase[g] = "done" /\ Stored(g)' => Stored(g)
    /\ \A t \in Titles : users[t] # NoPassword => users'[t] = users[t]
    /\ wrote \subseteq wrote'
    /\ Doomed => Doomed'

LEMMA GoodKept ==
    ASSUME SrvTypeOK, Keeps, NEW r, Good(r)
    PROVE  Good(r)'
<1>1. /\ r.to \in Handlers /\ r.to \in Handlers'
      /\ Kind(r.to)' = Kind(r.to) /\ Body(r.to)' = Body(r.to)
  BY DEF Good, Keeps, Kind, Body
<1>2. r.kind = "save_ack" => phase'[r.to] = "done"
  BY DEF Good, Keeps
<1>3. r.kind = "save_ack" /\ r.value \in {"Fail", "ErrorTextLen"} => ~Stored(r.to)'
  BY DEF Good, Keeps
<1>4. IsReply(r, "login_ack", "LOGGED_IN") /\ Kind(r.to) = "login" =>
          users'[Body(r.to).title] = Body(r.to).password
  <2> SUFFICES ASSUME IsReply(r, "login_ack", "LOGGED_IN"), Kind(r.to) = "login"
               PROVE  users'[Body(r.to).title] = Body(r.to).password
    OBVIOUS
  <2>1. Body(r.to).title \in Titles /\ Body(r.to).password \in Passwords
    BY <1>1, HandlerTypes
  <2>2. users[Body(r.to).title] = Body(r.to).password
    BY DEF Good
  <2>3. users[Body(r.to).title] # NoPassword
    BY <2>1, <2>2, DbAssumption DEF DbAssumption
  <2>4. QED
    BY <2>1, <2>2, <2>3 DEF Keeps
<1>5. QED
  BY <1>1, <1>2, <1>3, <1>4 DEF Good, IsReply

(* A step that posts at most one reply, which is true, keeps the replies.  *)
LEMMA RepliesKept ==
    ASSUME SrvTypeOK, RepliesInv, Keeps, UNCHANGED inbox,
           \/ UNCHANGED outbox
           \/ \E r \in Replies : /\ outbox' = Append(outbox, r)
                                 /\ Good(r)'
                                 /\ Executed(r)' \/ Doomed'
    PROVE  RepliesInv'
<1> SUFFICES ASSUME NEW r \in Replies
             PROVE  /\ Sent(r)' => Good(r)' /\ Executed(r)'
                    /\ Waiting(r)' => Good(r)' /\ (Executed(r)' \/ Doomed')
  BY DEF RepliesInv
<1>1. Executed(r) => Executed(r)'
  BY DEF Executed, Keeps, IsReply
<1>2. Sent(r)' => Sent(r)
  BY DEF Sent
<1>3. Sent(r)' => Good(r)' /\ Executed(r)'
  BY <1>1, <1>2, GoodKept DEF RepliesInv
<1>4. CASE Waiting(r)
  BY <1>1, <1>3, <1>4, GoodKept DEF RepliesInv, Keeps
<1>5. CASE ~Waiting(r) /\ Waiting(r)'
  <2>1. PICK n \in Replies : /\ outbox' = Append(outbox, n)
                             /\ Good(n)'
                             /\ Executed(n)' \/ Doomed'
    BY <1>5 DEF Waiting
  <2>2. r = n
    BY <1>5, <2>1 DEF Waiting, SrvTypeOK
  <2>3. QED
    BY <1>3, <2>1, <2>2
<1>6. QED
  BY <1>3, <1>4, <1>5

(* What a step of a handler can do to the database.                        *)
DbStep ==
    /\ UNCHANGED mysql
    /\ conn' \in {conn, Connected}
    /\ driverError => driverError'
    /\ driverError' => driverError \/ conn = "stale"
    /\ \/ UNCHANGED <<txn, users>>
       \/ txn' = NoTxn /\ commit
       \/ /\ UNCHANGED users
          /\ txn'.table = "users" => users[txn'.key] = NoPassword

LEMMA DbSteps ==
    ASSUME DbTypeOK
    PROVE  /\ UNCHANGED dbVars => DbStep
           /\ commit => DbStep
           /\ \A t, p, res : authenticate_user(t, p, res) => DbStep
           /\ \A t, p, res : register_user(t, p, res) => DbStep
           /\ \A t, x, res : save_notka(t, x, res) => DbStep
           /\ \A t, res : get_notka(t, res) => DbStep
<1>1. UNCHANGED dbVars => DbStep
  BY DEF DbStep, dbVars
<1>2. commit => DbStep
  BY DEF DbStep, commit
<1>3. Use => /\ UNCHANGED mysql /\ conn' \in {conn, Connected}
             /\ driverError => driverError'
             /\ driverError' => driverError \/ conn = "stale"
  BY DEF Use, Connected
<1>4. ASSUME NEW t, NEW p, NEW res, authenticate_user(t, p, res) PROVE DbStep
  BY <1>1, <1>3, <1>4 DEF authenticate_user, DbStep, tables
<1>5. ASSUME NEW t, NEW p, NEW res, register_user(t, p, res) PROVE DbStep
  BY <1>1, <1>3, <1>5 DEF register_user, DbStep, tables, NotTaken
<1>6. ASSUME NEW t, NEW x, NEW res, save_notka(t, x, res) PROVE DbStep
  BY <1>3, <1>6 DEF save_notka, DbStep, tables
<1>7. ASSUME NEW t, NEW res, get_notka(t, res) PROVE DbStep
  BY <1>3, <1>7 DEF get_notka, DbStep, tables
<1>8. QED
  BY <1>1, <1>2, <1>4, <1>5, <1>6, <1>7

(* The transaction of a handler between its statement and its commit.      *)
WriteOf(h) ==
    IF Kind(h) = "login"
    THEN [table |-> "users", key |-> Body(h).title, value |-> Body(h).password]
    ELSE [table |-> "notkas", key |-> Body(h).title, value |-> Body(h).text]

(* A step of a handler enters that stretch, or leaves it, or finds no      *)
(* transaction open, or leaves the database alone.                         *)
TxnFrame(h, p) ==
    IF p = "commit"
    THEN /\ txn = NoTxn /\ txn' = WriteOf(h)
         /\ Connected = "open"
         /\ Kind(h) \in {"login", "save"}
    ELSE phase[h] = "commit" \/ txn = NoTxn \/ UNCHANGED <<conn, txn>>

(* The other effects of its step.                                          *)
HandlerFrame(h, p) ==
    /\ MoveTo(h, p)
    /\ TxnFrame(h, p)
    /\ phase[h] # "done"
    /\ UNCHANGED <<reqs, inbox, main>>
    /\ wrote \subseteq wrote' /\ wrote' \subseteq wrote \cup {h}
    /\ p = "commit" => h \in wrote'
    /\ \/ UNCHANGED saved
       \/ /\ p = "done"
          /\ Body(h).title \in Titles
          /\ saved' = [saved EXCEPT ![Body(h).title] =
                           Append(@, [text |-> Body(h).text, by |-> h])]

LEMMA HandlerFrames ==
    ASSUME SrvTypeOK, NEW h \in Handlers, HandlerStep(h)
    PROVE  DbStep /\ \E p : HandlerFrame(h, p)
<1>0. DbTypeOK /\ wrote \subseteq Handlers
  BY DEF SrvTypeOK
<1>1. CASE Start(h)
  <2>1. DbStep
    BY <1>0, <1>1, DbSteps DEF Start
  <2>2. HandlerFrame(h, "started")
    BY <1>1 DEF Start, HandlerFrame, TxnFrame, MoveTo, dbVars, replyVars, mainVars, histVars
  <2>3. QED
    BY <2>1, <2>2
<1>2. CASE Junk(h) \/ Syn(h) \/ LoginBad(h) \/ SaveShort(h)
  <2>1. Answered(h) /\ phase[h] = "started"
    BY <1>2 DEF Junk, Syn, LoginBad, SaveShort, Begin
  <2>2. DbStep
    BY <1>0, <2>1, DbSteps DEF Answered
  <2>3. HandlerFrame(h, "done")
    BY <2>1 DEF Answered, HandlerFrame, TxnFrame, dbVars, mainVars, histVars
  <2>4. QED
    BY <2>2, <2>3
<1>3. CASE Authenticate(h)
  <2>1. DbStep
    BY <1>0, <1>3, DbSteps DEF Authenticate
  <2>2. /\ phase[h] = "started"
        /\ \E p \in {"done", "fetch"} : MoveTo(h, p)
        /\ UNCHANGED <<reqs, inbox, main, saved, wrote>>
        /\ txn = NoTxn \/ UNCHANGED <<conn, txn>>
    BY <1>3 DEF Authenticate, Begin, FetchIfLoggedIn, mainVars, histVars,
                authenticate_user, Use, Unlocked, dbVars
  <2>3. \E p : HandlerFrame(h, p)
    BY <2>2 DEF HandlerFrame, TxnFrame
  <2>4. QED
    BY <2>1, <2>3
<1>4. CASE Register(h)
  <2>1. DbStep
    BY <1>0, <1>4, DbSteps DEF Register
  <2>2. /\ phase[h] = "started"
        /\ UNCHANGED <<reqs, inbox, main, saved>>
        /\ \/ /\ MoveTo(h, "commit") /\ wrote' = wrote \cup {h}
              /\ TxnFrame(h, "commit")
           \/ /\ MoveTo(h, "done") /\ UNCHANGED wrote
              /\ TxnFrame(h, "done")
    BY <1>4 DEF Register, Begin, mainVars, TxnFrame, WriteOf, register_user, Use, Unlocked, dbVars
  <2>3. \E p : HandlerFrame(h, p)
    BY <2>2 DEF HandlerFrame
  <2>4. QED
    BY <2>1, <2>3
<1>5. CASE RegisterCommit(h)
  <2>1. DbStep
    BY <1>0, <1>5, DbSteps DEF RegisterCommit
  <2>2. HandlerFrame(h, "done")
    BY <1>5 DEF RegisterCommit, HandlerFrame, TxnFrame, mainVars, histVars
  <2>3. QED
    BY <2>1, <2>2
<1>6. CASE FetchNotka(h)
  <2>1. DbStep
    BY <1>0, <1>6, DbSteps DEF FetchNotka
  <2>2. HandlerFrame(h, "done")
    BY <1>6 DEF FetchNotka, HandlerFrame, TxnFrame, get_notka, Use, Unlocked, mainVars, histVars
  <2>3. QED
    BY <2>1, <2>2
<1>7. CASE Save(h)
  <2>1. DbStep
    BY <1>0, <1>7, DbSteps DEF Save
  <2>2. /\ phase[h] = "started"
        /\ UNCHANGED <<reqs, inbox, main, saved>>
        /\ \/ /\ MoveTo(h, "commit") /\ wrote' = wrote \cup {h}
              /\ TxnFrame(h, "commit")
           \/ /\ MoveTo(h, "done") /\ UNCHANGED wrote
              /\ TxnFrame(h, "done")
    BY <1>7 DEF Save, Begin, mainVars, TxnFrame, WriteOf, save_notka, Use, Unlocked
  <2>3. \E p : HandlerFrame(h, p)
    BY <2>2 DEF HandlerFrame
  <2>4. QED
    BY <2>1, <2>3
<1>8. CASE SaveCommit(h)
  <2>1. DbStep
    BY <1>0, <1>8, DbSteps DEF SaveCommit
  <2>2. Body(h).title \in Titles
    BY <1>8, HandlerTypes DEF SaveCommit
  <2>3. HandlerFrame(h, "done")
    BY <1>8, <2>2 DEF SaveCommit, HandlerFrame, TxnFrame, mainVars
  <2>4. QED
    BY <2>1, <2>3
<1>9. QED
  BY <1>1, <1>2, <1>3, <1>4, <1>5, <1>6, <1>7, <1>8 DEF HandlerStep

(* A text is in the history before a step of h and after it, unless it is  *)
(* h's own and h is done.                                                  *)
LEMMA StoredByStep ==
    ASSUME SrvTypeOK, NEW h \in Handlers, NEW p, HandlerFrame(h, p)
    PROVE  /\ \A g \in Nat : Stored(g)' => Stored(g) \/ (g = h /\ p = "done")
           /\ \A t \in Titles : \A k \in DOMAIN saved'[t] :
                 \/ k \in DOMAIN saved[t] /\ saved'[t][k].by = saved[t][k].by
                 \/ saved'[t][k].by = h /\ p = "done"
<1>1. saved \in [Titles -> Seq([text : Texts \cup {NoText}, by : Nat])]
  BY DEF SrvTypeOK
<1>2. ASSUME NEW t \in Titles, NEW k \in DOMAIN saved'[t]
      PROVE  \/ k \in DOMAIN saved[t] /\ saved'[t][k].by = saved[t][k].by
             \/ saved'[t][k].by = h /\ p = "done"
  <2>1. CASE UNCHANGED saved
    BY <1>2, <2>1
  <2>2. CASE /\ p = "done"
             /\ Body(h).title \in Titles
             /\ saved' = [saved EXCEPT ![Body(h).title] =
                              Append(@, [text |-> Body(h).text, by |-> h])]
    <3>1. CASE t = Body(h).title
      <4> DEFINE s == saved[t]
                 e == [text |-> Body(h).text, by |-> h]
      <4>1. s \in Seq([text : Texts \cup {NoText}, by : Nat])
        BY <1>1
      <4>2. saved'[t] = Append(s, e)
        BY <1>1, <2>2, <3>1
      <4>3. e.by = h
        OBVIOUS
      <4> HIDE DEF s, e
      <4>4. k \in 1..Len(s)+1 /\ Append(s, e)[k] = IF k = Len(s)+1 THEN e ELSE s[k]
        BY <1>2, <4>1, <4>2
      <4>5. QED
        BY <2>2, <4>1, <4>2, <4>3, <4>4 DEF s
    <3>2. CASE t # Body(h).title
      BY <1>1, <1>2, <2>2, <3>2
    <3>3. QED
      BY <3>1, <3>2
  <2>3. QED
    BY <2>1, <2>2 DEF HandlerFrame
<1>3. \A g \in Nat : Stored(g)' => Stored(g) \/ (g = h /\ p = "done")
  BY <1>2 DEF Stored
<1>4. QED
  BY <1>2, <1>3

LEMMA HandlerKeeps ==
    ASSUME SrvTypeOK, WritesInv, NEW h \in Handlers, NEW p, HandlerFrame(h, p), DbStep
    PROVE  Keeps
<1>1. Handlers' = Handlers /\ \A g \in Handlers : reqs'[g] = reqs[g]
  BY DEF HandlerFrame, Handlers
<1>2. \A g \in Handlers : phase[g] = "done" => phase'[g] = "done" /\ g # h
  BY HandlerTypes DEF HandlerFrame, MoveTo
<1>3. \A g \in Handlers : g \in Nat
  BY HandlerTypes
<1>4. \A g \in Handlers : phase[g] = "done" /\ Stored(g)' => Stored(g)
  BY <1>2, <1>3, StoredByStep
<1>5. ASSUME NEW t \in Titles, users[t] # NoPassword PROVE users'[t] = users[t]
  <2>1. CASE UNCHANGED users
    BY <2>1
  <2>2. CASE commit
    BY <1>5, <2>2 DEF commit, Written, tables, WritesInv, SrvTypeOK, DbTypeOK
  <2>3. QED
    BY <2>1, <2>2 DEF DbStep
<1>6. wrote \subseteq wrote' /\ (Doomed => Doomed')
  BY DEF HandlerFrame, DbStep, Doomed
<1>7. QED
  BY <1>1, <1>2, <1>4, <1>5, <1>6 DEF Keeps

LEMMA HandlerWrites ==
    ASSUME SrvTypeOK, WritesInv, NEW h \in Handlers, NEW p, HandlerFrame(h, p), DbStep
    PROVE  WritesInv'
<1>1. Handlers' = Handlers
  BY DEF HandlerFrame, Handlers
<1>2. /\ \A g \in Handlers : g # h => phase'[g] = phase[g]
      /\ phase'[h] = p
  BY HandlerTypes DEF HandlerFrame, MoveTo
<1>3. txn' # NoTxn /\ txn'.table = "users" => users'[txn'.key] = NoPassword
  BY DEF DbStep, WritesInv
<1>4. \A g \in Handlers : phase'[g] = "commit" => g \in wrote'
  BY <1>2 DEF HandlerFrame, WritesInv
<1>5. \A g \in Handlers : Stored(g)' => phase'[g] = "done"
  <2>1. \A g \in Handlers : g \in Nat
    BY HandlerTypes
  <2>2. phase[h] # "done"
    BY DEF HandlerFrame
  <2>3. QED
    BY <1>2, <2>1, <2>2, StoredByStep DEF WritesInv
<1>6. \A t \in Titles : \A k \in DOMAIN saved'[t] : saved'[t][k].by \in Handlers \cup {0}
  BY StoredByStep DEF WritesInv
<1>7. QED
  BY <1>1, <1>3, <1>4, <1>5, <1>6 DEF WritesInv

LEMMA HandlerConn ==
    ASSUME ConnInv, NEW h, NEW p, HandlerFrame(h, p), DbStep
    PROVE  ConnInv'
BY DEF ConnInv, HandlerFrame, DbStep, Connected, Doomed

(* What a handler posts is true when it posts it.                          *)
PostsTruly ==
    \/ UNCHANGED outbox
    \/ \E r \in Replies : /\ outbox' = Append(outbox, r)
                          /\ Good(r)'
                          /\ Executed(r)' \/ Doomed'

LEMMA PostOther ==
    ASSUME NEW h \in Handlers', NEW k, NEW v,
           k # "save_ack",
           k = "login_ack" /\ v = "LOGGED_IN" /\ Kind(h)' = "login" =>
               users'[Body(h)'.title] = Body(h)'.password,
           [to |-> h, kind |-> k, value |-> v] \in Replies, Post(h, k, v)
    PROVE  PostsTruly
<1> DEFINE r == [to |-> h, kind |-> k, value |-> v]
<1>1. outbox' = Append(outbox, r)
  BY DEF Post
<1>2. r.to = h /\ r.kind = k /\ r.value = v
  OBVIOUS
<1> HIDE DEF r
<1>3. Good(r)'
  BY <1>2 DEF Good, IsReply
<1>4. Executed(r)'
  BY <1>2 DEF Executed, IsReply
<1>5. r \in Replies
  BY DEF r
<1>6. QED
  BY <1>1, <1>3, <1>4, <1>5 DEF PostsTruly

LEMMA PostSaveAck ==
    ASSUME NEW h \in Handlers', NEW v,
           phase'[h] = "done",
           v \in {"Fail", "ErrorTextLen"} => ~Stored(h)',
           v = "Ok" => h \in wrote' \/ Doomed',
           [to |-> h, kind |-> "save_ack", value |-> v] \in Replies, Post(h, "save_ack", v)
    PROVE  PostsTruly
<1> DEFINE r == [to |-> h, kind |-> "save_ack", value |-> v]
<1>1. outbox' = Append(outbox, r)
  BY DEF Post
<1>2. r.to = h /\ r.kind = "save_ack" /\ r.value = v
  OBVIOUS
<1> HIDE DEF r
<1>3. Good(r)'
  BY <1>2 DEF Good, IsReply
<1>4. Executed(r)' \/ Doomed'
  BY <1>2 DEF Executed, IsReply
<1>5. r \in Replies
  BY DEF r
<1>6. QED
  BY <1>1, <1>3, <1>4, <1>5 DEF PostsTruly

LEMMA HandlerReply ==
    ASSUME SrvTypeOK, AnswerInv, NEW h \in Handlers, HandlerStep(h)
    PROVE  PostsTruly
<1>0. /\ h \in Nat /\ Client(h) \in Clients
      /\ Kind(h) = "login" => Body(h).title \in Titles /\ Body(h).password \in Passwords
      /\ Kind(h) = "save" => Body(h).title \in Titles /\ Body(h).text \in Texts
      /\ DOMAIN phase = Handlers
  BY HandlerTypes
<1>1. state[Client(h)] \in SessionStates
  BY <1>0 DEF SrvTypeOK
<1>2. Handlers' = Handlers /\ Kind(h)' = Kind(h) /\ Body(h)' = Body(h)
  BY HandlerFrames DEF HandlerFrame, Handlers, Kind, Body
<1>3. phase[h] # "done" => ~Stored(h)
  BY DEF AnswerInv, WritesInv
<1>4. CASE Start(h) \/ Junk(h)
  BY <1>4 DEF Start, Junk, replyVars, PostsTruly
<1>5. CASE Syn(h)
  BY <1>0, <1>2, <1>5, RepliesPosted, PostOther DEF Syn
<1>6. CASE LoginBad(h)
  <2>1. Kind(h) = "login_bad" /\ Post(h, "login_ack", state[Client(h)])
    BY <1>6 DEF LoginBad, Begin
  <2>2. [to |-> h, kind |-> "login_ack", value |-> state[Client(h)]] \in Replies
    BY <1>0, <1>1, RepliesPosted
  <2>3. QED
    BY <1>2, <2>1, <2>2, PostOther
<1>7. CASE SaveShort(h)
  <2>1. /\ Post(h, "save_ack", "ErrorTextLen") /\ MoveTo(h, "done")
        /\ phase[h] = "started" /\ UNCHANGED saved
    BY <1>7 DEF SaveShort, Begin, Answered, histVars
  <2>2. ~Stored(h)'
    BY <1>3, <2>1 DEF Stored
  <2>3. phase'[h] = "done"
    BY <1>0, <2>1 DEF MoveTo
  <2>4. [to |-> h, kind |-> "save_ack", value |-> "ErrorTextLen"] \in Replies
    BY <1>0, RepliesPosted
  <2>5. QED
    BY <1>2, <2>1, <2>2, <2>3, <2>4, PostSaveAck
<1>8. CASE Authenticate(h)
  <2>1. PICK res \in {"match", "no_user", "mismatch", "throw"} :
            /\ authenticate_user(Body(h).title, Body(h).password, res)
            /\ \/ UNCHANGED outbox
               \/ res # "throw" /\ Post(h, "login_ack", StateFor(res))
    BY <1>8 DEF Authenticate
  <2>2. CASE UNCHANGED outbox
    BY <2>2 DEF PostsTruly
  <2>3. CASE res # "throw" /\ Post(h, "login_ack", StateFor(res))
    <3>1. StateFor(res) \in SessionStates /\ (StateFor(res) = "LOGGED_IN" => res = "match")
      BY <2>3 DEF StateFor, SessionStates
    <3>2. res = "match" => users'[Body(h).title] = Body(h).password
      BY <2>1 DEF authenticate_user, PasswordResult, dbVars, tables
    <3>3. [to |-> h, kind |-> "login_ack", value |-> StateFor(res)] \in Replies
      BY <1>0, <3>1, RepliesPosted
    <3>4. QED
      BY <1>2, <2>3, <3>1, <3>2, <3>3, PostOther
  <2>4. QED
    BY <2>1, <2>2, <2>3
<1>9. CASE Register(h) \/ RegisterCommit(h)
  <2>1. \/ UNCHANGED outbox
        \/ Post(h, "login_ack", "REGISTER_FAIL")
        \/ Post(h, "login_ack", "REGISTERED")
    BY <1>9 DEF Register, RegisterCommit
  <2>2. {"REGISTER_FAIL", "REGISTERED"} \subseteq SessionStates
    BY DEF SessionStates
  <2>3. \A v \in {"REGISTER_FAIL", "REGISTERED"} :
            [to |-> h, kind |-> "login_ack", value |-> v] \in Replies
    BY <1>0, <2>2, RepliesPosted
  <2>4. ASSUME NEW v \in {"REGISTER_FAIL", "REGISTERED"}, Post(h, "login_ack", v)
        PROVE  PostsTruly
    BY <1>2, <2>3, <2>4, PostOther
  <2>5. QED
    BY <2>1, <2>4 DEF PostsTruly
<1>10. CASE FetchNotka(h)
  <2>1. PICK res \in Texts \cup {NoText} :
            IF res = NoText THEN UNCHANGED outbox ELSE Post(h, "notka", res)
    BY <1>10 DEF FetchNotka
  <2>2. CASE UNCHANGED outbox
    BY <2>2 DEF PostsTruly
  <2>3. CASE res \in Texts /\ Post(h, "notka", res)
    <3>1. [to |-> h, kind |-> "notka", value |-> res] \in Replies
      BY <1>0, <2>3, RepliesPosted
    <3>2. QED
      BY <1>2, <2>3, <3>1, PostOther
  <2>4. QED
    BY <2>1, <2>2, <2>3
<1>11. CASE Save(h)
  <2>1. CASE UNCHANGED outbox
    BY <2>1 DEF PostsTruly
  <2>2. CASE ~UNCHANGED outbox
    <3>1. PICK res \in {"true", "false"} :
              /\ save_notka(Body(h).title, Body(h).text, res)
              /\ Post(h, "save_ack", ErrFor(res))
              /\ MoveTo(h, "done")
      BY <1>11, <2>2 DEF Save
    <3>2. phase[h] = "started" /\ UNCHANGED <<saved, main>>
      BY <1>11 DEF Save, Begin, mainVars
    <3>3. res = "true" => Doomed'
      BY <3>1, <3>2 DEF save_notka, Use, Connected, Doomed, AnswerInv, ConnInv
    <3>4. ErrFor(res) \in {"Ok", "Fail"} /\ (ErrFor(res) = "Ok" => res = "true")
      BY <3>1 DEF ErrFor
    <3>5. ~Stored(h)'
      BY <1>3, <3>2 DEF Stored
    <3>6. phase'[h] = "done"
      BY <1>0, <3>1 DEF MoveTo
    <3>7. [to |-> h, kind |-> "save_ack", value |-> ErrFor(res)] \in Replies
      BY <1>0, <3>4, RepliesPosted
    <3>8. QED
      BY <1>2, <3>1, <3>3, <3>4, <3>5, <3>6, <3>7, PostSaveAck
  <2>3. QED
    BY <2>1, <2>2
<1>12. CASE SaveCommit(h)
  <2>1. /\ Post(h, "save_ack", "Ok") /\ MoveTo(h, "done")
        /\ phase[h] = "commit" /\ UNCHANGED wrote
    BY <1>12 DEF SaveCommit, ErrFor
  <2>2. h \in wrote'
    BY <2>1 DEF AnswerInv, WritesInv
  <2>3. phase'[h] = "done"
    BY <1>0, <2>1 DEF MoveTo
  <2>4. [to |-> h, kind |-> "save_ack", value |-> "Ok"] \in Replies
    BY <1>0, RepliesPosted
  <2>5. QED
    BY <1>2, <2>1, <2>2, <2>3, <2>4, PostSaveAck
<1>13. QED
  BY <1>4, <1>5, <1>6, <1>7, <1>8, <1>9, <1>10, <1>11, <1>12 DEF HandlerStep

LEMMA HandlerAnswers ==
    ASSUME SrvTypeOK, AnswerInv, NEW h \in Handlers, HandlerStep(h)
    PROVE  AnswerInv'
<1>1. PICK p : HandlerFrame(h, p)
  BY HandlerFrames
<1>2. DbStep /\ WritesInv /\ ConnInv /\ RepliesInv
  BY HandlerFrames DEF AnswerInv
<1>3. Keeps /\ UNCHANGED inbox
  BY <1>1, <1>2, HandlerKeeps DEF HandlerFrame
<1>4. RepliesInv'
  BY <1>2, <1>3, HandlerReply, RepliesKept DEF PostsTruly
<1>5. QED
  BY <1>1, <1>2, <1>4, HandlerConn, HandlerWrites DEF AnswerInv

(* A message that arrives is at the end of the queue.                      *)
LEMMA ReceiveFrame ==
    ASSUME SrvTypeOK, AnswerInv, NEW c \in Clients, NEW body \in Bodies, Receive(c, body)
    PROVE  /\ UNCHANGED <<dbVars, outbox, inbox, main, saved, wrote>>
           /\ \A g : Stored(g)' = Stored(g)
           /\ Handlers \subseteq Handlers'
           /\ \A g \in Handlers : reqs'[g] = reqs[g] /\ phase'[g] = phase[g]
           /\ \A g \in Handlers' : g \in Handlers \/ (phase'[g] = "queued" /\ ~Stored(g))
           /\ Keeps
<1>1. /\ reqs \in Seq([client : Clients, body : Bodies])
      /\ phase \in Seq({"queued", "started", "commit", "fetch", "done"})
      /\ DOMAIN phase = DOMAIN reqs
  BY DEF SrvTypeOK
<1>2. /\ reqs' = Append(reqs, [client |-> c, body |-> body])
      /\ phase' = Append(phase, "queued")
      /\ UNCHANGED <<dbVars, outbox, inbox, main, saved, wrote>>
  BY DEF Receive, replyVars, mainVars, histVars
<1>3. Len(phase) = Len(reqs) /\ Len(reqs) \in Nat
  BY <1>1
<1>4. /\ Handlers = 1..Len(reqs) /\ Handlers' = 1..(Len(reqs) + 1)
      /\ \A g \in Handlers : reqs'[g] = reqs[g] /\ phase'[g] = phase[g]
      /\ phase'[Len(reqs) + 1] = "queued"
  BY <1>1, <1>2, <1>3 DEF Handlers
<1>5. \A g : Stored(g)' = Stored(g)
  BY <1>2 DEF Stored
<1>6. ~Stored(Len(reqs) + 1)
  BY <1>3, <1>4 DEF AnswerInv, WritesInv, Stored
<1>7. Handlers \subseteq Handlers' /\ \A g \in Handlers' : g \in Handlers \/ g = Len(reqs) + 1
  BY <1>3, <1>4
<1>8. Keeps
  BY <1>2, <1>4, <1>5, <1>7 DEF Keeps, dbVars, Doomed
<1>9. QED
  BY <1>2, <1>4, <1>5, <1>6, <1>7, <1>8

LEMMA ReceiveAnswers ==
    ASSUME SrvTypeOK, AnswerInv, NEW c \in Clients, NEW body \in Bodies, Receive(c, body)
    PROVE  AnswerInv'
<1>1. RepliesInv'
  BY ReceiveFrame, RepliesKept DEF AnswerInv
<1>2. ConnInv'
  BY ReceiveFrame DEF AnswerInv, ConnInv, Doomed, dbVars
<1>3. WritesInv'
  BY ReceiveFrame DEF AnswerInv, WritesInv, dbVars
<1>4. QED
  BY <1>1, <1>2, <1>3 DEF AnswerInv

(* The other steps of the main thread write nothing and answer nothing.    *)
LEMMA MainFrame ==
    ASSUME SrvTypeOK, AnswerInv, MainStep \/ ReconnectClose \/ Fault \/ UNCHANGED vars
    PROVE  /\ UNCHANGED <<reqs, phase, users, notkas, txn, saved, wrote>>
           /\ \A g : Stored(g)' = Stored(g)
           /\ UNCHANGED <<inbox, outbox>> \/ Deliver
           /\ ConnInv'
           /\ Keeps
<1>1. UNCHANGED <<reqs, phase, users, notkas, txn, saved, wrote>>
  BY DEF MainStep, StartUp, Deliver, ReconnectClose, ReconnectInit, ReconnectCheck, Fault,
         init_database, close_database, MysqlDown, MysqlUp, histVars, tables, dbVars, vars
<1>2. Handlers' = Handlers /\ \A g : Stored(g)' = Stored(g)
  BY <1>1 DEF Handlers, Stored
<1>3. (Doomed => Doomed') /\ ConnInv'
  <2>0. ConnInv
    BY DEF AnswerInv
  <2>1. CASE StartUp \/ ReconnectInit
    BY <2>1 DEF StartUp, ReconnectInit, init_database, Doomed, ConnInv
  <2>2. CASE ReconnectClose
    BY <2>2 DEF ReconnectClose, close_database, Doomed, ConnInv
  <2>3. CASE ReconnectCheck
    BY <2>0, <2>3 DEF ReconnectCheck, ErrorSeen, Connected, Doomed, ConnInv
  <2>4. CASE Deliver \/ UNCHANGED vars
    BY <2>0, <2>4 DEF Deliver, mainVars, dbVars, vars, Doomed, ConnInv
  <2>5. CASE Fault
    BY <2>0, <2>5 DEF Fault, MysqlDown, MysqlUp, Doomed, ConnInv
  <2>6. QED
    BY <2>1, <2>2, <2>3, <2>4, <2>5 DEF MainStep
<1>4. Keeps
  BY <1>1, <1>2, <1>3 DEF Keeps
<1>5. UNCHANGED <<inbox, outbox>> \/ Deliver
  BY DEF MainStep, StartUp, ReconnectClose, ReconnectInit, ReconnectCheck, Fault, replyVars, vars
<1>6. QED
  BY <1>1, <1>2, <1>3, <1>4, <1>5

(* A delivery only moves a reply from the queue to those that were sent.   *)
LEMMA DeliverMoves ==
    ASSUME SrvTypeOK, Deliver
    PROVE  /\ Head(outbox) \in Replies /\ Waiting(Head(outbox))
           /\ \A r : Waiting(r)' => Waiting(r)
           /\ \A r : Sent(r)' => Sent(r) \/ r = Head(outbox)
<1>1. /\ outbox \in Seq(Replies) /\ inbox \in Seq(Replies) /\ outbox # <<>>
      /\ inbox' = Append(inbox, Head(outbox))
      /\ outbox' = Tail(outbox)
  BY DEF Deliver, SrvTypeOK
<1>2. Head(outbox) \in Replies /\ Waiting(Head(outbox))
  BY <1>1, HeadTailProperties DEF Waiting
<1>3. \A r : Waiting(r)' => Waiting(r)
  BY <1>1 DEF Waiting
<1>4. \A r : Sent(r)' => Sent(r) \/ r = Head(outbox)
  BY <1>1 DEF Sent
<1>5. QED
  BY <1>2, <1>3, <1>4

LEMMA MainAnswers ==
    ASSUME SrvTypeOK, AnswerInv, MainStep \/ ReconnectClose \/ Fault \/ UNCHANGED vars
    PROVE  AnswerInv'
<1>1. WritesInv'
  <2>1. WritesInv
    BY DEF AnswerInv
  <2>2. UNCHANGED <<phase, users, txn, saved, wrote>> /\ Handlers' = Handlers
    BY MainFrame DEF Handlers
  <2>3. \A g : Stored(g)' = Stored(g)
    BY MainFrame
  <2>4. QED
    BY <2>1, <2>2, <2>3 DEF WritesInv
<1>2. RepliesInv'
  <2>0. RepliesInv /\ Keeps
    BY MainFrame DEF AnswerInv
  <2>1. CASE UNCHANGED <<inbox, outbox>>
    BY <2>0, <2>1, RepliesKept
  <2>2. CASE Deliver
    <3>1. ~Doomed
      BY <2>2 DEF Deliver, Doomed
    <3>2. \A r : Executed(r)' = Executed(r)
      BY MainFrame DEF Executed
    <3>3. ASSUME NEW r, Good(r) PROVE Good(r)'
      BY <2>0, <3>3, GoodKept
    <3>4. QED
      BY <2>0, <2>2, <3>1, <3>2, <3>3, DeliverMoves DEF RepliesInv
  <2>3. QED
    BY <2>1, <2>2, MainFrame
<1>3. QED
  BY <1>1, <1>2, MainFrame DEF AnswerInv

LEMMA InitAnswers == Init => AnswerInv
<1> SUFFICES ASSUME Init PROVE AnswerInv
  OBVIOUS
<1>1. /\ reqs = <<>> /\ outbox = <<>> /\ inbox = <<>> /\ main = "start"
      /\ conn = "absent" /\ txn = NoTxn
  BY DEF Init, DbInit
<1>2. \A t \in Titles : \A k \in DOMAIN saved[t] : saved[t][k].by = 0
  BY DEF Init, DbInit
<1>3. RepliesInv
  BY <1>1 DEF RepliesInv, Sent, Waiting
<1>4. ConnInv
  BY <1>1 DEF ConnInv
<1>5. WritesInv
  BY <1>1, <1>2 DEF WritesInv, Handlers
<1>6. QED
  BY <1>3, <1>4, <1>5 DEF AnswerInv

THEOREM AnswersInductive == Spec => []AnswerInv
<1>1. SrvTypeOK /\ AnswerInv /\ [Next]_vars => AnswerInv'
  BY HandlerAnswers, ReceiveAnswers, MainAnswers DEF Next, Quiet
<1>2. QED
  BY <1>1, InitAnswers, TypeCorrect, PTL DEF Spec

-----------------------------------------------------------------------------
(* What follows from the invariant.                                        *)

(* Who was told something was told it by a reply sent or posted.           *)
LEMMA ToldByReply ==
    ASSUME SrvTypeOK, NEW h, NEW k, NEW v, Told(h, k, v)
    PROVE  \E r \in Replies : (Sent(r) \/ Waiting(r)) /\ r.to = h /\ IsReply(r, k, v)
<1>1. inbox \in Seq(Replies) /\ outbox \in Seq(Replies)
  BY DEF SrvTypeOK
<1>2. PICK i \in DOMAIN Posted : Posted[i].to = h /\ IsReply(Posted[i], k, v)
  BY DEF Told
<1>3. Posted \in Seq(Replies) /\ i \in 1..Len(Posted)
  BY <1>1, <1>2 DEF Posted
<1>4. Posted[i] \in Replies
  BY <1>3, ElementOfSeq
<1>5. \/ i \in DOMAIN inbox /\ Posted[i] = inbox[i]
      \/ i - Len(inbox) \in DOMAIN outbox /\ Posted[i] = outbox[i - Len(inbox)]
  BY <1>1, <1>3 DEF Posted
<1>6. Sent(Posted[i]) \/ Waiting(Posted[i])
  BY <1>5 DEF Sent, Waiting
<1>7. QED
  BY <1>2, <1>4, <1>6

LEMMA ToldIsGood ==
    ASSUME SrvTypeOK, AnswerInv, NEW h, NEW k, NEW v, Told(h, k, v)
    PROVE  \E r : Good(r) /\ r.to = h /\ IsReply(r, k, v)
BY ToldByReply DEF AnswerInv, RepliesInv

(* An answer about a save that leaves the server can be relied on: a       *)
(* refusal means that nothing was stored, an Ok that the statement was     *)
(* executed, although save_notka returns true on a connection that is not  *)
(* open, which a reconnect can leave to the pool for a while.              *)
THEOREM AnswersTrue == Spec => []AnswersAreTrue
<1>1. SrvTypeOK /\ AnswerInv => FailMeansNotStored
  <2> SUFFICES ASSUME SrvTypeOK, AnswerInv, NEW h \in Handlers,
                      NEW v \in {"Fail", "ErrorTextLen"}, Told(h, "save_ack", v)
               PROVE  ~Stored(h)
    BY DEF FailMeansNotStored
  <2>1. PICK r : Good(r) /\ r.to = h /\ IsReply(r, "save_ack", v)
    BY ToldIsGood
  <2>2. QED
    BY <2>1 DEF Good, IsReply
<1>2. SrvTypeOK /\ AnswerInv => SentOkWasExecuted
  <2> SUFFICES ASSUME SrvTypeOK, AnswerInv, NEW i \in DOMAIN inbox,
                      IsReply(inbox[i], "save_ack", "Ok")
               PROVE  inbox[i].to \in wrote
    BY DEF SentOkWasExecuted
  <2>1. inbox \in Seq(Replies)
    BY DEF SrvTypeOK
  <2>2. inbox[i] \in Replies
    BY <2>1
  <2>3. Executed(inbox[i])
    BY <2>2 DEF AnswerInv, RepliesInv, Sent
  <2>4. QED
    BY <2>3 DEF Executed
<1>3. QED
  BY <1>1, <1>2, TypeCorrect, AnswersInductive, PTL DEF AnswersAreTrue

(* Only the right password opens a notka, whichever sessions race for its  *)
(* title: a client that was told LOGGED_IN for a title gave the password   *)
(* the title has, which never changes.                                     *)
THEOREM OnlyItsPassword == Spec => []LoginMatches
<1>1. SrvTypeOK /\ AnswerInv => LoginMatches
  <2> SUFFICES ASSUME SrvTypeOK, AnswerInv, NEW h \in Handlers,
                      Kind(h) = "login", Told(h, "login_ack", "LOGGED_IN")
               PROVE  users[Body(h).title] = Body(h).password
    BY DEF LoginMatches
  <2>1. PICK r : Good(r) /\ r.to = h /\ IsReply(r, "login_ack", "LOGGED_IN")
    BY ToldIsGood
  <2>2. QED
    BY <2>1 DEF Good
<1>2. QED
  BY <1>1, TypeCorrect, AnswersInductive, PTL

(* The loop never runs with a connection that is missing or not open: the  *)
(* start and each reconnect leave one that can be used or end the process, *)
(* whatever the pool does with the connection meanwhile.                   *)
THEOREM LoopHasConnection == Spec => []ReconnectRestores
<1>1. SrvTypeOK /\ AnswerInv => ReconnectRestores
  BY DEF SrvTypeOK, DbTypeOK, AnswerInv, ConnInv, Doomed, ReconnectRestores
<1>2. QED
  BY <1>1, TypeCorrect, AnswersInductive, PTL

-----------------------------------------------------------------------------
(* As long as MySQL stays up, an Ok stands for a committed text, and a     *)
(* title is registered by one message.  The invariant: the pool sees an    *)
(* open connection or none, at most one handler is between its statement   *)
(* and its commit, and the open transaction is its write.                  *)

Registration(r) == IsReply(r, "login_ack", "REGISTERED") /\ Kind(r.to) = "login"

DbUp == mysql = TRUE /\ driverError = FALSE /\ conn \in {"absent", "open"}

OneWriter ==
    \A h \in Handlers : phase[h] = "commit" =>
        /\ Kind(h) \in {"login", "save"}
        /\ conn = "open"
        /\ txn = WriteOf(h)
        /\ \A g \in Handlers : phase[g] = "commit" => g = h

Lasting(r) ==
    /\ IsReply(r, "save_ack", "Ok") => Stored(r.to)
    /\ Registration(r) => users[Body(r.to).title] # NoPassword

Said(r) == Sent(r) \/ Waiting(r)

UpInv ==
    /\ DbUp
    /\ OneWriter
    /\ \A r \in Replies : Said(r) => Lasting(r)
    /\ \A q, r \in Replies :
          /\ Said(q) /\ Registration(q)
          /\ Said(r) /\ Registration(r)
          /\ Body(q.to).title = Body(r.to).title
          => q.to = r.to

(* A write is never mistaken for "no transaction".                         *)
LEMMA WriteIsOpen ==
    ASSUME SrvTypeOK, OneWriter, NEW h \in Handlers, phase[h] = "commit"
    PROVE  txn # NoTxn
<1>1. Kind(h) \in {"login", "save"} /\ txn = WriteOf(h)
  BY DEF OneWriter
<1>2. WriteOf(h) \in [table : {"users", "notkas"}, key : Titles, value : Passwords \cup Texts]
  BY <1>1, HandlerTypes DEF WriteOf
<1>3. QED
  BY <1>1, <1>2, DbAssumption DEF DbAssumption

(* A text stays in the history.                                            *)
LEMMA StoredStays ==
    ASSUME SrvTypeOK, NEW h \in Handlers, NEW p, HandlerFrame(h, p), NEW g, Stored(g)
    PROVE  Stored(g)'
<1>1. saved \in [Titles -> Seq([text : Texts \cup {NoText}, by : Nat])]
  BY DEF SrvTypeOK
<1>2. PICK t \in Titles : \E k \in DOMAIN saved[t] : saved[t][k].by = g
  BY DEF Stored
<1>3. CASE UNCHANGED saved
  BY <1>2, <1>3 DEF Stored
<1>4. CASE saved' = [saved EXCEPT ![Body(h).title] =
                         Append(@, [text |-> Body(h).text, by |-> h])]
  <2>1. saved[t] \in Seq([text : Texts \cup {NoText}, by : Nat])
    BY <1>1
  <2> DEFINE e == [text |-> Body(h).text, by |-> h]
  <2> HIDE DEF e
  <2>2. saved'[t] = saved[t] \/ saved'[t] = Append(saved[t], e)
    BY <1>1, <1>4 DEF e
  <2>3. \A k \in DOMAIN saved[t] : k \in DOMAIN saved'[t] /\ saved'[t][k] = saved[t][k]
    <3> DEFINE s == saved[t]
    <3>1. s \in Seq([text : Texts \cup {NoText}, by : Nat])
      BY <2>1
    <3>2. saved'[t] = s \/ saved'[t] = Append(s, e)
      BY <2>2
    <3>3. \A k \in DOMAIN s : k \in DOMAIN Append(s, e) /\ Append(s, e)[k] = s[k]
      <4> HIDE DEF s
      <4>1. QED
        BY <3>1
    <3>4. QED
      BY <3>2, <3>3
  <2>4. QED
    BY <1>2, <2>3 DEF Stored
<1>5. QED
  BY <1>3, <1>4 DEF HandlerFrame

LEMMA LastingStays ==
    ASSUME SrvTypeOK, Keeps, NEW r, Good(r), Lasting(r),
           Stored(r.to) => Stored(r.to)'
    PROVE  Lasting(r)' /\ Registration(r)' = Registration(r)
           /\ Body(r.to)' = Body(r.to)
<1>1. /\ r.to \in Handlers
      /\ Kind(r.to)' = Kind(r.to) /\ Body(r.to)' = Body(r.to)
  BY DEF Good, Keeps, Kind, Body
<1>2. Registration(r)' = Registration(r)
  BY <1>1 DEF Registration, IsReply
<1>3. Registration(r) => users'[Body(r.to).title] # NoPassword
  <2>1. Registration(r) => Body(r.to).title \in Titles
    BY <1>1, HandlerTypes DEF Registration
  <2>2. QED
    BY <2>1 DEF Lasting, Keeps
<1>4. IsReply(r, "save_ack", "Ok") => Stored(r.to)'
  BY DEF Lasting
<1>5. QED
  BY <1>1, <1>2, <1>3, <1>4 DEF Lasting, IsReply

(* The replies part of the invariant, over a step that posts at most one.  *)
LEMMA SaidStays ==
    ASSUME SrvTypeOK, SrvTypeOK', AnswerInv, UpInv, Keeps,
           \A g \in Handlers : Stored(g) => Stored(g)',
           \/ \A r \in Replies : Said(r)' => Said(r)
           \/ \E n \in Replies :
                 /\ \A r \in Replies : Said(r)' => Said(r) \/ r = n
                 /\ Lasting(n)'
                 /\ Registration(n)' =>
                       \A r \in Replies : Said(r) /\ Registration(r)
                           => Body(r.to).title # Body(n.to)'.title
    PROVE  /\ \A r \in Replies : Said(r)' => Lasting(r)'
           /\ \A q, r \in Replies :
                 /\ Said(q)' /\ Registration(q)'
                 /\ Said(r)' /\ Registration(r)'
                 /\ Body(q.to)'.title = Body(r.to)'.title
                 => q.to = r.to
<1>1. ASSUME NEW r \in Replies, Said(r)
      PROVE  Lasting(r)' /\ Registration(r)' = Registration(r) /\ Body(r.to)' = Body(r.to)
  <2>1. Good(r) /\ Lasting(r)
    BY <1>1 DEF AnswerInv, RepliesInv, UpInv, Said
  <2>2. r.to \in Handlers
    BY <2>1 DEF Good
  <2>3. QED
    BY <2>1, <2>2, LastingStays
<1>2. CASE \A r \in Replies : Said(r)' => Said(r)
  BY <1>1, <1>2 DEF UpInv
<1>3. CASE \E n \in Replies :
                 /\ \A r \in Replies : Said(r)' => Said(r) \/ r = n
                 /\ Lasting(n)'
                 /\ Registration(n)' =>
                       \A r \in Replies : Said(r) /\ Registration(r)
                           => Body(r.to).title # Body(n.to)'.title
  <2>1. PICK n \in Replies :
                 /\ \A r \in Replies : Said(r)' => Said(r) \/ r = n
                 /\ Lasting(n)'
                 /\ Registration(n)' =>
                       \A r \in Replies : Said(r) /\ Registration(r)
                           => Body(r.to).title # Body(n.to)'.title
    BY <1>3
  <2>2. \A r \in Replies : Said(r)' => Lasting(r)'
    BY <1>1, <2>1
  <2>3. ASSUME NEW q \in Replies, NEW r \in Replies,
               Said(q)', Registration(q)', Said(r)', Registration(r)',
               Body(q.to)'.title = Body(r.to)'.title
        PROVE  q.to = r.to
    <3>1. CASE Said(q) /\ Said(r)
      BY <1>1, <2>3, <3>1 DEF UpInv
    <3>2. CASE q = n /\ r = n
      BY <3>2
    <3>3. CASE Said(q) /\ r = n
      BY <1>1, <2>1, <2>3, <3>3
    <3>4. CASE q = n /\ Said(r)
      BY <1>1, <2>1, <2>3, <3>4
    <3>5. QED
      BY <2>1, <2>3, <3>1, <3>2, <3>3, <3>4
  <2>4. QED
    BY <2>2, <2>3
<1>4. QED
  BY <1>2, <1>3

LEMMA DbStaysUp ==
    ASSUME DbUp, DbStep, SrvTypeOK'
    PROVE  DbUp' /\ UNCHANGED conn
BY DEF DbUp, DbStep, Connected, SrvTypeOK, DbTypeOK

LEMMA OneWriterStays ==
    ASSUME SrvTypeOK, OneWriter, DbUp, DbStep, UNCHANGED conn,
           NEW h \in Handlers, NEW p, HandlerFrame(h, p)
    PROVE  OneWriter'
<1>1. Handlers' = Handlers
      /\ \A g \in Handlers : Kind(g)' = Kind(g) /\ WriteOf(g)' = WriteOf(g)
  BY DEF HandlerFrame, Handlers, Kind, Body, WriteOf
<1>2. /\ \A g \in Handlers : g # h => phase'[g] = phase[g]
      /\ phase'[h] = p
  BY HandlerTypes DEF HandlerFrame, MoveTo
<1>3. txn = NoTxn => \A g \in Handlers : phase[g] # "commit"
  BY WriteIsOpen
<1>4. CASE p = "commit"
  <2>1. /\ txn = NoTxn /\ txn' = WriteOf(h) /\ conn' = "open"
        /\ Kind(h) \in {"login", "save"}
    BY <1>4 DEF HandlerFrame, TxnFrame, Connected, DbUp
  <2>2. QED
    BY <1>1, <1>2, <1>3, <2>1 DEF OneWriter
<1>5. CASE p # "commit"
  <2>1. phase[h] = "commit" => \A g \in Handlers : phase[g] = "commit" => g = h
    BY DEF OneWriter
  <2>2. CASE UNCHANGED txn
    BY <1>1, <1>2, <1>5, <2>2 DEF OneWriter
  <2>3. CASE phase[h] = "commit" \/ txn = NoTxn
    BY <1>1, <1>2, <1>3, <1>5, <2>1, <2>3 DEF OneWriter
  <2>4. QED
    BY <1>5, <2>2, <2>3 DEF HandlerFrame, TxnFrame
<1>6. QED
  BY <1>4, <1>5

(* What a handler posts while MySQL is up lasts.                           *)
PostsLasting ==
    \/ \A r \in Replies : Said(r)' => Said(r)
    \/ \E n \in Replies :
          /\ \A r \in Replies : Said(r)' => Said(r) \/ r = n
          /\ Lasting(n)'
          /\ Registration(n)' =>
                \A r \in Replies : Said(r) /\ Registration(r)
                    => Body(r.to).title # Body(n.to)'.title

LEMMA SaidBy ==
    ASSUME SrvTypeOK, UNCHANGED inbox
    PROVE  /\ UNCHANGED outbox => \A r : Said(r)' => Said(r)
           /\ \A n : outbox' = Append(outbox, n) => \A r : Said(r)' => Said(r) \/ r = n
<1>1. UNCHANGED outbox => \A r : Said(r)' => Said(r)
  BY DEF Said, Sent, Waiting
<1>2. ASSUME NEW n, outbox' = Append(outbox, n), NEW r, Said(r)' PROVE Said(r) \/ r = n
  BY <1>2 DEF Said, Sent, Waiting, SrvTypeOK
<1>3. QED
  BY <1>1, <1>2

LEMMA PostLasts ==
    ASSUME SrvTypeOK, UNCHANGED inbox,
           NEW h \in Nat, NEW k, NEW v, Post(h, k, v),
           [to |-> h, kind |-> k, value |-> v] \in Replies,
           k = "save_ack" /\ v = "Ok" => Stored(h)',
           k = "login_ack" /\ v = "REGISTERED" /\ Kind(h)' = "login" =>
               /\ users'[Body(h)'.title] # NoPassword
               /\ \A r \in Replies : Said(r) /\ Registration(r)
                      => Body(r.to).title # Body(h)'.title
    PROVE  PostsLasting
<1> DEFINE n == [to |-> h, kind |-> k, value |-> v]
<1>1. n.to = h /\ n.kind = k /\ n.value = v /\ n \in Replies
  OBVIOUS
<1>2. outbox' = Append(outbox, n)
  BY DEF Post
<1> HIDE DEF n
<1>3. \A r \in Replies : Said(r)' => Said(r) \/ r = n
  BY <1>2, SaidBy
<1>4. Lasting(n)'
  BY <1>1 DEF Lasting, IsReply, Registration
<1>5. Registration(n)' =>
          \A r \in Replies : Said(r) /\ Registration(r)
              => Body(r.to).title # Body(n.to)'.title
  BY <1>1 DEF IsReply, Registration
<1>6. QED
  BY <1>1, <1>3, <1>4, <1>5 DEF PostsLasting

LEMMA HandlerPostsLasting ==
    ASSUME SrvTypeOK, AnswerInv, UpInv, NEW h \in Handlers, HandlerStep(h)
    PROVE  PostsLasting
<1>0. /\ h \in Nat /\ Client(h) \in Clients
      /\ Kind(h) = "login" => Body(h).title \in Titles /\ Body(h).password \in Passwords
      /\ Kind(h) = "save" => Body(h).title \in Titles /\ Body(h).text \in Texts
      /\ state[Client(h)] \in SessionStates
  BY HandlerTypes DEF SrvTypeOK
<1>1. UNCHANGED inbox /\ Kind(h)' = Kind(h) /\ Body(h)' = Body(h)
  BY HandlerFrames DEF HandlerFrame, Kind, Body
<1>2. UNCHANGED outbox => PostsLasting
  BY <1>1, SaidBy DEF PostsLasting
<1>3. \A v \in SessionStates : [to |-> h, kind |-> "login_ack", value |-> v] \in Replies
  BY <1>0, RepliesPosted
<1>4. ASSUME NEW v \in SessionStates, v # "REGISTERED" \/ Kind(h) # "login",
             Post(h, "login_ack", v)
      PROVE  PostsLasting
  BY <1>0, <1>1, <1>3, <1>4, PostLasts
<1>5. CASE Start(h) \/ Junk(h)
  BY <1>2, <1>5 DEF Start, Junk, replyVars
<1>6. CASE Syn(h)
  BY <1>0, <1>1, <1>6, RepliesPosted, PostLasts DEF Syn
<1>7. CASE LoginBad(h)
  BY <1>0, <1>4, <1>7 DEF LoginBad, Begin
<1>8. CASE SaveShort(h)
  BY <1>0, <1>1, <1>8, RepliesPosted, PostLasts DEF SaveShort
<1>9. CASE Authenticate(h)
  <2>1. \/ UNCHANGED outbox
        \/ \E res \in {"match", "no_user", "mismatch"} : Post(h, "login_ack", StateFor(res))
    BY <1>9 DEF Authenticate
  <2>2. \A res \in {"match", "no_user", "mismatch"} :
            StateFor(res) \in SessionStates /\ StateFor(res) # "REGISTERED"
    BY DEF StateFor, SessionStates
  <2>3. QED
    BY <1>2, <1>4, <2>1, <2>2
<1>10. CASE Register(h)
  <2>1. UNCHANGED outbox \/ Post(h, "login_ack", "REGISTER_FAIL")
    BY <1>10 DEF Register
  <2>2. QED
    BY <1>2, <1>4, <2>1 DEF SessionStates
<1>11. CASE RegisterCommit(h)
  <2>1. /\ Post(h, "login_ack", "REGISTERED") /\ commit
        /\ phase[h] = "commit" /\ Kind(h) = "login"
    BY <1>11 DEF RegisterCommit
  <2>2. conn = "open" /\ txn = WriteOf(h) /\ txn # NoTxn
    BY <2>1, WriteIsOpen DEF UpInv, OneWriter
  <2>3. txn.table = "users" /\ txn.key = Body(h).title /\ txn.value = Body(h).password
    BY <2>1, <2>2 DEF WriteOf
  <2>4. users[Body(h).title] = NoPassword
    BY <2>2, <2>3 DEF AnswerInv, WritesInv
  <2>5. users'[Body(h).title] = Body(h).password
    BY <1>0, <2>1, <2>2, <2>3 DEF commit, Written, SrvTypeOK, DbTypeOK
  <2>6. \A r \in Replies : Said(r) /\ Registration(r) => Body(r.to).title # Body(h).title
    BY <2>4 DEF UpInv, Lasting
  <2>7. users'[Body(h).title] # NoPassword
    BY <1>0, <2>1, <2>5, DbAssumption DEF DbAssumption
  <2>8. "REGISTERED" \in SessionStates
    BY DEF SessionStates
  <2>9. QED
    BY <1>0, <1>1, <1>3, <2>1, <2>6, <2>7, <2>8, PostLasts
<1>12. CASE FetchNotka(h)
  <2>1. UNCHANGED outbox \/ \E res \in Texts : Post(h, "notka", res)
    BY <1>12 DEF FetchNotka
  <2>2. QED
    BY <1>0, <1>1, <1>2, <2>1, RepliesPosted, PostLasts
<1>13. CASE Save(h)
  <2>1. \A res : save_notka(Body(h).title, Body(h).text, res) => res # "true"
    BY DEF save_notka, Connected, UpInv, DbUp
  <2>2. UNCHANGED outbox \/ Post(h, "save_ack", "Fail")
    BY <1>13, <2>1 DEF Save, ErrFor
  <2>3. QED
    BY <1>0, <1>1, <1>2, <2>2, RepliesPosted, PostLasts
<1>14. CASE SaveCommit(h)
  <2>1. /\ Post(h, "save_ack", "Ok") /\ phase[h] = "commit" /\ Kind(h) = "save"
    BY <1>14 DEF SaveCommit, ErrFor
  <2>2. conn = "open"
    BY <2>1 DEF UpInv, OneWriter
  <2>3. Stored(h)'
    <3> DEFINE s == saved[Body(h).title]
               e == [text |-> Body(h).text, by |-> h]
    <3>1. s \in Seq([text : Texts \cup {NoText}, by : Nat])
      BY <1>0, <2>1 DEF SrvTypeOK
    <3>2. saved'[Body(h).title] = Append(s, e)
      BY <1>0, <1>14, <2>1, <2>2 DEF SaveCommit, SrvTypeOK
    <3>3. e.by = h
      OBVIOUS
    <3> HIDE DEF s, e
    <3>4. Len(s) + 1 \in DOMAIN Append(s, e) /\ Append(s, e)[Len(s) + 1] = e
      BY <3>1
    <3>5. QED
      BY <1>0, <2>1, <3>2, <3>3, <3>4 DEF Stored
  <2>4. QED
    BY <1>0, <1>1, <2>1, <2>3, RepliesPosted, PostLasts
<1>15. QED
  BY <1>5, <1>6, <1>7, <1>8, <1>9, <1>10, <1>11, <1>12, <1>13, <1>14 DEF HandlerStep

LEMMA HandlerUp ==
    ASSUME SrvTypeOK, SrvTypeOK', AnswerInv, UpInv, NEW h \in Handlers, HandlerStep(h)
    PROVE  UpInv'
<1>1. PICK p : HandlerFrame(h, p)
  BY HandlerFrames
<1>2. DbStep /\ WritesInv
  BY HandlerFrames DEF AnswerInv
<1>3. Keeps
  BY <1>1, <1>2, HandlerKeeps
<1>4. DbUp' /\ UNCHANGED conn
  BY <1>2, DbStaysUp DEF UpInv
<1>5. OneWriter'
  BY <1>1, <1>2, <1>4, OneWriterStays DEF UpInv
<1>6. \A g \in Handlers : Stored(g) => Stored(g)'
  BY <1>1, StoredStays
<1>7. QED
  BY <1>3, <1>4, <1>5, <1>6, HandlerPostsLasting, SaidStays DEF UpInv, PostsLasting

LEMMA ReceiveUp ==
    ASSUME SrvTypeOK, SrvTypeOK', AnswerInv, UpInv,
           NEW c \in Clients, NEW body \in Bodies, Receive(c, body)
    PROVE  UpInv'
<1>1. DbUp'
  BY ReceiveFrame DEF UpInv, DbUp, dbVars
<1>2. OneWriter'
  BY ReceiveFrame DEF UpInv, OneWriter, Kind, Body, WriteOf, dbVars
<1>3. UNCHANGED <<inbox, outbox>> /\ Keeps /\ \A g \in Handlers : Stored(g) => Stored(g)'
  BY ReceiveFrame
<1>4. QED
  BY <1>1, <1>2, <1>3, SaidBy, SaidStays DEF UpInv

(* The reconnect waits for the writer; and with MaxFaults = 0 there is no  *)
(* fault.                                                                  *)
LEMMA MainUp ==
    ASSUME SrvTypeOK, SrvTypeOK', AnswerInv, UpInv, MaxFaults = 0,
           MainStep \/ ReconnectClose \/ Fault \/ UNCHANGED vars
    PROVE  UpInv'
<1>0. DbUp /\ OneWriter
  BY DEF UpInv
<1>1. ~Fault
  BY <1>0 DEF Fault, MysqlDown, MysqlUp, DbUp, SrvTypeOK
<1>2. DbUp' /\ (UNCHANGED conn \/ txn = NoTxn)
  <2>1. CASE StartUp \/ ReconnectInit
    BY <1>0, <2>1 DEF StartUp, ReconnectInit, init_database, DbUp, Unlocked
  <2>2. CASE ReconnectClose
    BY <1>0, <2>2 DEF ReconnectClose, close_database, DbUp, Unlocked
  <2>3. CASE ReconnectCheck
    BY <1>0, <2>3 DEF ReconnectCheck, Connected, DbUp
  <2>4. CASE Deliver \/ UNCHANGED vars
    BY <1>0, <2>4 DEF Deliver, dbVars, vars, DbUp
  <2>5. QED
    BY <1>1, <2>1, <2>2, <2>3, <2>4 DEF MainStep
<1>3. OneWriter'
  <2>1. UNCHANGED <<reqs, phase, txn>>
    BY MainFrame
  <2>2. Handlers' = Handlers
        /\ \A g \in Handlers : Kind(g)' = Kind(g) /\ WriteOf(g)' = WriteOf(g)
    BY <2>1 DEF Handlers, Kind, Body, WriteOf
  <2>3. txn = NoTxn => \A g \in Handlers : phase[g] # "commit"
    BY <1>0, WriteIsOpen
  <2>4. QED
    BY <1>0, <1>2, <2>1, <2>2, <2>3 DEF OneWriter
<1>4. \A r \in Replies : Said(r)' => Said(r)
  <2>1. CASE UNCHANGED <<inbox, outbox>>
    BY <2>1, SaidBy
  <2>2. CASE Deliver
    BY <2>2, DeliverMoves DEF Said
  <2>3. QED
    BY <2>1, <2>2, MainFrame
<1>5. Keeps /\ \A g \in Handlers : Stored(g) => Stored(g)'
  BY MainFrame
<1>6. QED
  BY <1>2, <1>3, <1>4, <1>5, SaidStays DEF UpInv

LEMMA InitUp == Init => UpInv
<1> SUFFICES ASSUME Init PROVE UpInv
  OBVIOUS
<1>1. reqs = <<>> /\ outbox = <<>> /\ inbox = <<>>
  BY DEF Init
<1>2. DbUp
  BY DEF Init, DbInit, DbUp
<1>3. OneWriter
  BY <1>1 DEF OneWriter, Handlers
<1>4. \A r : ~Said(r)
  BY <1>1 DEF Said, Sent, Waiting
<1>5. QED
  BY <1>2, <1>3, <1>4 DEF UpInv

LEMMA NextUp ==
    MaxFaults = 0 => (SrvTypeOK /\ SrvTypeOK' /\ AnswerInv /\ UpInv /\ [Next]_vars => UpInv')
BY HandlerUp, ReceiveUp, MainUp DEF Next, Quiet

LEMMA UpInductive == ASSUME MaxFaults = 0 PROVE Spec => []UpInv
<1>1. SrvTypeOK /\ SrvTypeOK' /\ AnswerInv /\ UpInv /\ [Next]_vars => UpInv'
  BY NextUp
<1>2. QED
  BY <1>1, InitUp, TypeCorrect, AnswersInductive, PTL DEF Spec

(* "OK. Saved.": while MySQL stays up, however many sessions save and      *)
(* whenever the connection is made anew, the text of every save that was   *)
(* acknowledged was committed to the table.                                *)
THEOREM OkIsStored == ASSUME MaxFaults = 0 PROVE Spec => []OkMeansStored
<1>1. SrvTypeOK /\ UpInv => OkMeansStored
  <2> SUFFICES ASSUME SrvTypeOK, UpInv, NEW h \in Handlers, Told(h, "save_ack", "Ok")
               PROVE  Stored(h)
    BY DEF OkMeansStored
  <2>1. PICK r \in Replies : Said(r) /\ r.to = h /\ IsReply(r, "save_ack", "Ok")
    BY ToldByReply DEF Said
  <2>2. QED
    BY <2>1 DEF UpInv, Lasting
<1>2. QED
  BY <1>1, TypeCorrect, UpInductive, PTL

(* While MySQL stays up, of all sessions that race for a title only one    *)
(* message is told that it registered it.                                  *)
THEOREM OneRegistration == ASSUME MaxFaults = 0 PROVE Spec => []RegisteredOnce
<1>1. SrvTypeOK /\ UpInv => RegisteredOnce
  <2> SUFFICES ASSUME SrvTypeOK, UpInv, NEW g \in Handlers, NEW h \in Handlers,
                      Kind(g) = "login", Told(g, "login_ack", "REGISTERED"),
                      Kind(h) = "login", Told(h, "login_ack", "REGISTERED"),
                      Body(g).title = Body(h).title
               PROVE  g = h
    BY DEF RegisteredOnce
  <2>1. PICK q \in Replies : Said(q) /\ q.to = g /\ IsReply(q, "login_ack", "REGISTERED")
    BY ToldByReply DEF Said
  <2>2. PICK r \in Replies : Said(r) /\ r.to = h /\ IsReply(r, "login_ack", "REGISTERED")
    BY ToldByReply DEF Said
  <2>3. QED
    BY <2>1, <2>2 DEF UpInv, Registration
<1>2. QED
  BY <1>1, TypeCorrect, UpInductive, PTL

-----------------------------------------------------------------------------
(* The replies so far, in the order they were posted.  A delivery leaves   *)
(* that order alone, a post adds to its end.                               *)

LEMMA PostedType == SrvTypeOK => Posted \in Seq(Replies)
BY ConcatProperties DEF SrvTypeOK, Posted

LEMMA DeliverKeepsOrder ==
    ASSUME SrvTypeOK, Deliver
    PROVE  Posted' = Posted
<1> DEFINE r == Head(outbox)
           rest == Tail(outbox)
<1>1. /\ outbox \in Seq(Replies) /\ inbox \in Seq(Replies) /\ outbox # <<>>
      /\ inbox' = Append(inbox, r) /\ outbox' = rest
  BY DEF SrvTypeOK, Deliver
<1>2. r \in Replies /\ rest \in Seq(Replies) /\ << r >> \in Seq(Replies)
  BY <1>1, HeadTailProperties
<1>3. outbox = << r >> \o rest
  <2>1. /\ << r >> \o rest \in Seq(Replies)
        /\ Len(<< r >> \o rest) = Len(outbox)
        /\ \A i \in 1..Len(outbox) : (<< r >> \o rest)[i] = IF i <= 1 THEN r ELSE rest[i - 1]
    BY <1>1, <1>2, ConcatProperties, HeadTailProperties
  <2>2. ASSUME NEW i \in 1..Len(outbox) PROVE outbox[i] = (<< r >> \o rest)[i]
    <3>1. CASE i = 1
      BY <1>1, <2>1, <3>1
    <3>2. CASE i # 1
      <4>1. i - 1 \in 1..Len(rest) /\ rest[i - 1] = outbox[(i - 1) + 1]
        BY <1>1, <3>2, HeadTailProperties
      <4>2. QED
        BY <1>1, <2>1, <3>2, <4>1
    <3>3. QED
      BY <3>1, <3>2
  <2> HIDE DEF r, rest
  <2>3. QED
    BY <1>1, <2>1, <2>2, SeqEqual
<1> HIDE DEF r, rest
<1>4. Append(inbox, r) = inbox \o << r >>
  BY <1>1, <1>2, AppendIsConcat
<1>5. (inbox \o << r >>) \o rest = inbox \o (<< r >> \o rest)
  BY <1>1, <1>2, ConcatAssociative
<1>6. QED
  BY <1>1, <1>3, <1>4, <1>5 DEF Posted

LEMMA PostAppends ==
    ASSUME SrvTypeOK, NEW h, NEW k, NEW v, Post(h, k, v), UNCHANGED inbox,
           [to |-> h, kind |-> k, value |-> v] \in Replies
    PROVE  Posted' = Append(Posted, [to |-> h, kind |-> k, value |-> v])
<1> DEFINE r == [to |-> h, kind |-> k, value |-> v]
<1>1. /\ outbox \in Seq(Replies) /\ inbox \in Seq(Replies) /\ r \in Replies
      /\ inbox' = inbox /\ outbox' = Append(outbox, r)
  BY DEF SrvTypeOK, Post
<1> HIDE DEF r
<1>2. << r >> \in Seq(Replies) /\ Posted \in Seq(Replies)
  BY <1>1, PostedType
<1>3. Append(outbox, r) = outbox \o << r >> /\ Append(Posted, r) = Posted \o << r >>
  BY <1>1, <1>2, AppendIsConcat
<1>4. (inbox \o outbox) \o << r >> = inbox \o (outbox \o << r >>)
  BY <1>1, <1>2, ConcatAssociative
<1>5. QED
  BY <1>1, <1>3, <1>4 DEF Posted, r

(* Everything that was posted answers a message that was received.         *)
LEMMA PostedTo ==
    ASSUME SrvTypeOK, AnswerInv, NEW i \in DOMAIN Posted
    PROVE  Posted[i].to \in Handlers /\ Posted[i] \in Replies
<1>1. inbox \in Seq(Replies) /\ outbox \in Seq(Replies) /\ Posted \in Seq(Replies)
  BY PostedType DEF SrvTypeOK
<1>2. Posted[i] \in Replies /\ i \in 1..Len(Posted)
  BY <1>1, ElementOfSeq
<1>3. \/ i \in DOMAIN inbox /\ Posted[i] = inbox[i]
      \/ i - Len(inbox) \in DOMAIN outbox /\ Posted[i] = outbox[i - Len(inbox)]
  BY <1>1, <1>2 DEF Posted
<1>4. Sent(Posted[i]) \/ Waiting(Posted[i])
  BY <1>3 DEF Sent, Waiting
<1>5. QED
  BY <1>2, <1>4 DEF AnswerInv, RepliesInv, Good

(* Where the replies to a message are, before and after a post.            *)
LEMMA RepliesGrow ==
    ASSUME SrvTypeOK, NEW r \in Replies, Posted' = Append(Posted, r)
    PROVE  LET n == Len(Posted) + 1
           IN /\ n \in Nat /\ DOMAIN Posted' = DOMAIN Posted \cup {n}
              /\ Posted'[n] = r
              /\ \A i \in DOMAIN Posted : i \in Nat /\ i < n /\ Posted'[i] = Posted[i]
              /\ \A g : g # r.to => Acks(g)' = Acks(g) /\ TextsSent(g)' = TextsSent(g)
              /\ IsAck(r) => /\ Acks(r.to)' = Acks(r.to) \cup {n}
                             /\ TextsSent(r.to)' = TextsSent(r.to)
              /\ ~IsAck(r) => /\ Acks(r.to)' = Acks(r.to)
                              /\ TextsSent(r.to)' = TextsSent(r.to) \cup {n}
<1> DEFINE n == Len(Posted) + 1
<1>1. Posted \in Seq(Replies)
  BY PostedType
<1>2. /\ n \in Nat /\ DOMAIN Posted' = DOMAIN Posted \cup {n} /\ n \notin DOMAIN Posted
      /\ Posted'[n] = r
      /\ \A i \in DOMAIN Posted : i \in Nat /\ i < n /\ Posted'[i] = Posted[i]
  BY <1>1
<1> HIDE DEF n
<1>3. \A g : RepliesTo(g)' = IF g = r.to THEN RepliesTo(g) \cup {n} ELSE RepliesTo(g)
  BY <1>2 DEF RepliesTo
<1>4. \A g : /\ RepliesTo(g) \subseteq DOMAIN Posted
             /\ Acks(g) = {i \in RepliesTo(g) : Posted[i].kind # "notka"}
             /\ Acks(g)' = {i \in RepliesTo(g)' : Posted'[i].kind # "notka"}
  BY DEF RepliesTo, Acks, IsAck
<1>5. \A g : g # r.to => Acks(g)' = Acks(g) /\ TextsSent(g)' = TextsSent(g)
  <2> SUFFICES ASSUME NEW g, g # r.to PROVE Acks(g)' = Acks(g) /\ TextsSent(g)' = TextsSent(g)
    OBVIOUS
  <2>1. RepliesTo(g)' = RepliesTo(g)
    BY <1>3
  <2>2. Acks(g)' = Acks(g)
    BY <1>2, <1>4, <2>1
  <2>3. QED
    BY <2>1, <2>2 DEF TextsSent
<1>6. IsAck(r) => /\ Acks(r.to)' = Acks(r.to) \cup {n}
                  /\ TextsSent(r.to)' = TextsSent(r.to)
  <2> SUFFICES ASSUME IsAck(r) PROVE /\ Acks(r.to)' = Acks(r.to) \cup {n}
                                     /\ TextsSent(r.to)' = TextsSent(r.to)
    OBVIOUS
  <2>1. RepliesTo(r.to)' = RepliesTo(r.to) \cup {n} /\ r.kind # "notka"
    BY <1>3 DEF IsAck
  <2>2. Acks(r.to)' = Acks(r.to) \cup {n}
    BY <1>2, <1>4, <2>1
  <2>3. QED
    BY <1>2, <1>4, <2>1, <2>2 DEF TextsSent
<1>7. ~IsAck(r) => /\ Acks(r.to)' = Acks(r.to)
                   /\ TextsSent(r.to)' = TextsSent(r.to) \cup {n}
  <2> SUFFICES ASSUME ~IsAck(r) PROVE /\ Acks(r.to)' = Acks(r.to)
                                      /\ TextsSent(r.to)' = TextsSent(r.to) \cup {n}
    OBVIOUS
  <2>1. RepliesTo(r.to)' = RepliesTo(r.to) \cup {n} /\ r.kind = "notka"
    BY <1>3 DEF IsAck
  <2>2. Acks(r.to)' = Acks(r.to)
    BY <1>2, <1>4, <2>1
  <2>3. QED
    BY <1>2, <1>4, <2>1, <2>2 DEF TextsSent
<1>8. QED
  BY <1>2, <1>5, <1>6, <1>7 DEF n

-----------------------------------------------------------------------------
(* What a step of a handler says, and to whom.                             *)

SaysNothing(h, p) ==
    /\ MoveTo(h, p) /\ UNCHANGED <<inbox, outbox, state>>
    /\ \/ phase[h] = "queued" /\ p = "started"
       \/ /\ phase[h] = "started" /\ p = "commit" /\ SessionUnlocked(Client(h))
          /\ Kind(h) \in {"login", "save"}
          /\ Kind(h) = "login" => state[Client(h)] = "NO_SUCH_USER"
       \/ /\ phase[h] = "started" /\ p = "done"
          /\ Kind(h) = "junk" \/ (Kind(h) = "login" /\ ~Selects(Body(h).title))
       \/ phase[h] = "fetch" /\ p = "done"

SaysAck(h, r, p) ==
    /\ r.to = h /\ IsAck(r) /\ Kind(h) # "junk"
    /\ MoveTo(h, p) /\ Posted' = Append(Posted, r)
    /\ \/ p = "done"
       \/ /\ p = "fetch" /\ phase[h] = "started" /\ Kind(h) = "login"
          /\ IsReply(r, "login_ack", "LOGGED_IN")
    /\ (phase[h] = "started" /\ SessionUnlocked(Client(h))) \/ phase[h] = "commit"
    /\ \/ ~(Kind(h) = "login" /\ r.kind = "login_ack") /\ UNCHANGED state
       \/ /\ Kind(h) = "login" /\ r.kind = "login_ack"
          /\ state' = [state EXCEPT ![Client(h)] = r.value]
          /\ phase[h] = "commit" => r.value = "REGISTERED"
          /\ r.value \in {"REGISTERED", "REGISTER_FAIL"} =>
                phase[h] = "commit" \/ state[Client(h)] = "NO_SUCH_USER"

SaysText(h, r, p) ==
    /\ r.to = h /\ ~IsAck(r)
    /\ MoveTo(h, p) /\ Posted' = Append(Posted, r) /\ UNCHANGED state
    /\ phase[h] = "fetch" /\ p = "done"

Says(h, p) ==
    \/ SaysNothing(h, p)
    \/ \E r \in Replies : SaysAck(h, r, p) \/ SaysText(h, r, p)

LEMMA HandlerSays ==
    ASSUME SrvTypeOK, NEW h \in Handlers, HandlerStep(h)
    PROVE  UNCHANGED <<reqs, inbox, mainVars>> /\ \E p : Says(h, p)
<1> DEFINE R(k, v) == [to |-> h, kind |-> k, value |-> v]
<1>0. /\ h \in Nat /\ Client(h) \in Clients
      /\ state[Client(h)] \in SessionStates
  BY HandlerTypes DEF SrvTypeOK
<1>1. UNCHANGED <<reqs, inbox, mainVars>>
  BY DEF HandlerStep, Start, Junk, Syn, LoginBad, SaveShort, Answered, Authenticate, Register,
         RegisterCommit, FetchNotka, Save, SaveCommit, replyVars
<1>2. ASSUME NEW k, NEW v, R(k, v) \in Replies, Post(h, k, v), UNCHANGED inbox
      PROVE  \E r \in Replies : /\ r.to = h /\ r.kind = k /\ r.value = v
                                /\ Posted' = Append(Posted, r)
  <2>1. Posted' = Append(Posted, R(k, v))
    BY <1>2, PostAppends
  <2>2. QED
    BY <1>2, <2>1
<1>3. /\ R("syn_ack", "") \in Replies
      /\ \A v \in SessionStates : R("login_ack", v) \in Replies
      /\ \A v \in {"Ok", "Fail", "ErrorTextLen"} : R("save_ack", v) \in Replies
      /\ \A v \in Texts : R("notka", v) \in Replies
  BY <1>0, RepliesPosted
<1> HIDE DEF R
<1>4. CASE Start(h) \/ Junk(h)
  <2>1. CASE Start(h)
    BY <2>1 DEF Start, SaysNothing, Says, MoveTo, replyVars
  <2>2. CASE Junk(h)
    BY <2>2 DEF Junk, Begin, Answered, SaysNothing, Says
  <2>3. QED
    BY <1>1, <1>4, <2>1, <2>2
<1>5. CASE Syn(h)
  <2>1. PICK r \in Replies : r.to = h /\ r.kind = "syn_ack" /\ Posted' = Append(Posted, r)
    BY <1>1, <1>2, <1>3, <1>5 DEF Syn
  <2>2. SaysAck(h, r, "done")
    BY <1>5, <2>1 DEF Syn, Begin, Answered, SaysAck, IsAck
  <2>3. QED
    BY <1>1, <2>2 DEF Says
<1>6. CASE LoginBad(h)
  <2>1. PICK r \in Replies : r.to = h /\ r.kind = "login_ack" /\ Posted' = Append(Posted, r)
    BY <1>0, <1>1, <1>2, <1>3, <1>6 DEF LoginBad
  <2>2. SaysAck(h, r, "done")
    BY <1>6, <2>1 DEF LoginBad, Begin, Answered, SaysAck, IsAck
  <2>3. QED
    BY <1>1, <2>2 DEF Says
<1>7. CASE SaveShort(h)
  <2>1. PICK r \in Replies : r.to = h /\ r.kind = "save_ack" /\ Posted' = Append(Posted, r)
    BY <1>1, <1>2, <1>3, <1>7 DEF SaveShort
  <2>2. SaysAck(h, r, "done")
    BY <1>7, <2>1 DEF SaveShort, Begin, Answered, SaysAck, IsAck
  <2>3. QED
    BY <1>1, <2>2 DEF Says
<1>8. CASE Authenticate(h)
  <2>1. PICK res \in {"match", "no_user", "mismatch", "throw"} :
            /\ authenticate_user(Body(h).title, Body(h).password, res)
            /\ \/ /\ res = "throw" /\ MoveTo(h, "done") /\ UNCHANGED <<state, outbox>>
               \/ /\ res # "throw"
                  /\ state' = [state EXCEPT ![Client(h)] = StateFor(res)]
                  /\ Post(h, "login_ack", StateFor(res))
                  /\ MoveTo(h, FetchIfLoggedIn(res))
    BY <1>8 DEF Authenticate
  <2>2. phase[h] = "started" /\ Kind(h) = "login" /\ SessionUnlocked(Client(h))
    BY <1>8 DEF Authenticate, Begin
  <2>3. CASE res = "throw"
    <3>1. ~Selects(Body(h).title)
      BY <2>1, <2>3 DEF authenticate_user, PasswordResult
    <3>2. SaysNothing(h, "done")
      BY <1>1, <2>1, <2>2, <2>3, <3>1 DEF SaysNothing
    <3>3. QED
      BY <1>1, <3>2 DEF Says
  <2>4. CASE res # "throw"
    <3>1. /\ StateFor(res) \in {"LOGGED_IN", "NO_SUCH_USER", "WRONG_PASSWORD"}
          /\ res = "match" => StateFor(res) = "LOGGED_IN"
          /\ StateFor(res) \in SessionStates
      BY <2>4 DEF StateFor, SessionStates
    <3>5. R("login_ack", StateFor(res)) \in Replies /\ Post(h, "login_ack", StateFor(res))
      BY <1>3, <2>1, <2>4, <3>1
    <3>2. PICK r \in Replies : /\ r.to = h /\ r.kind = "login_ack" /\ r.value = StateFor(res)
                               /\ Posted' = Append(Posted, r)
      BY <1>1, <1>2, <3>5
    <3>3. SaysAck(h, r, FetchIfLoggedIn(res))
      BY <2>1, <2>2, <2>4, <3>1, <3>2 DEF SaysAck, IsAck, IsReply, FetchIfLoggedIn
    <3>4. QED
      BY <1>1, <3>3 DEF Says
  <2>5. QED
    BY <2>3, <2>4
<1>9. CASE Register(h)
  <2>1. /\ phase[h] = "started" /\ Kind(h) = "login" /\ SessionUnlocked(Client(h))
        /\ state[Client(h)] = "NO_SUCH_USER"
    BY <1>9 DEF Register, Begin, Registers
  <2>2. CASE MoveTo(h, "commit") /\ UNCHANGED <<state, outbox>>
    <3>1. SaysNothing(h, "commit")
      BY <1>1, <2>1, <2>2 DEF SaysNothing
    <3>2. QED
      BY <1>1, <3>1 DEF Says
  <2>3. CASE /\ state' = [state EXCEPT ![Client(h)] = "REGISTER_FAIL"]
             /\ Post(h, "login_ack", "REGISTER_FAIL")
             /\ MoveTo(h, "done")
    <3>0. R("login_ack", "REGISTER_FAIL") \in Replies
      BY <1>3 DEF SessionStates
    <3>1. PICK r \in Replies : /\ r.to = h /\ r.kind = "login_ack" /\ r.value = "REGISTER_FAIL"
                               /\ Posted' = Append(Posted, r)
      BY <1>1, <1>2, <2>3, <3>0
    <3>2. SaysAck(h, r, "done")
      BY <2>1, <2>3, <3>1 DEF SaysAck, IsAck
    <3>3. QED
      BY <1>1, <3>2 DEF Says
  <2>4. QED
    BY <1>9, <2>2, <2>3 DEF Register
<1>10. CASE RegisterCommit(h)
  <2>0. R("login_ack", "REGISTERED") \in Replies /\ Post(h, "login_ack", "REGISTERED")
    BY <1>3, <1>10 DEF RegisterCommit, SessionStates
  <2>1. PICK r \in Replies : /\ r.to = h /\ r.kind = "login_ack" /\ r.value = "REGISTERED"
                             /\ Posted' = Append(Posted, r)
    BY <1>1, <1>2, <2>0
  <2>2. SaysAck(h, r, "done")
    BY <1>10, <2>1 DEF RegisterCommit, StateRegistered, SaysAck, IsAck
  <2>3. QED
    BY <1>1, <2>2 DEF Says
<1>11. CASE FetchNotka(h)
  <2>1. PICK res \in Texts \cup {NoText} :
            IF res = NoText THEN UNCHANGED outbox ELSE Post(h, "notka", res)
    BY <1>11 DEF FetchNotka
  <2>2. MoveTo(h, "done") /\ UNCHANGED state /\ phase[h] = "fetch"
    BY <1>11 DEF FetchNotka
  <2>3. CASE res = NoText
    <3>1. SaysNothing(h, "done")
      BY <1>1, <2>1, <2>2, <2>3 DEF SaysNothing
    <3>2. QED
      BY <1>1, <3>1 DEF Says
  <2>4. CASE res # NoText
    <3>1. PICK r \in Replies : r.to = h /\ r.kind = "notka" /\ Posted' = Append(Posted, r)
      BY <1>1, <1>2, <1>3, <2>1, <2>4
    <3>2. SaysText(h, r, "done")
      BY <2>2, <3>1 DEF SaysText, IsAck
    <3>3. QED
      BY <1>1, <3>2 DEF Says
  <2>5. QED
    BY <2>3, <2>4
<1>12. CASE Save(h)
  <2>1. phase[h] = "started" /\ Kind(h) = "save" /\ SessionUnlocked(Client(h)) /\ UNCHANGED state
    BY <1>12 DEF Save, Begin
  <2>2. CASE MoveTo(h, "commit") /\ UNCHANGED outbox
    <3>1. SaysNothing(h, "commit")
      BY <1>1, <2>1, <2>2 DEF SaysNothing
    <3>2. QED
      BY <1>1, <3>1 DEF Says
  <2>3. CASE \E res \in {"true", "false"} : Post(h, "save_ack", ErrFor(res)) /\ MoveTo(h, "done")
    <3>1. PICK r \in Replies : r.to = h /\ r.kind = "save_ack" /\ Posted' = Append(Posted, r)
      BY <1>1, <1>2, <1>3, <2>3 DEF ErrFor
    <3>2. SaysAck(h, r, "done")
      BY <2>1, <2>3, <3>1 DEF SaysAck, IsAck
    <3>3. QED
      BY <1>1, <3>2 DEF Says
  <2>4. QED
    BY <1>12, <2>2, <2>3 DEF Save
<1>13. CASE SaveCommit(h)
  <2>1. PICK r \in Replies : r.to = h /\ r.kind = "save_ack" /\ Posted' = Append(Posted, r)
    BY <1>1, <1>2, <1>3, <1>13 DEF SaveCommit, ErrFor
  <2>2. SaysAck(h, r, "done")
    BY <1>13, <2>1 DEF SaveCommit, SaysAck, IsAck
  <2>3. QED
    BY <1>1, <2>2 DEF Says
<1>14. QED
  BY <1>4, <1>5, <1>6, <1>7, <1>8, <1>9, <1>10, <1>11, <1>12, <1>13 DEF HandlerStep

(* The others answer nobody: they leave the replies, the sessions and the  *)
(* phases of the handlers alone.                                           *)
LEMMA OthersSayNothing ==
    ASSUME SrvTypeOK, AnswerInv,
           \/ MainStep \/ ReconnectClose \/ Fault \/ UNCHANGED vars
           \/ \E c \in Clients, body \in Bodies : Receive(c, body)
    PROVE  /\ Posted' = Posted /\ UNCHANGED state
           /\ Handlers \subseteq Handlers'
           /\ \A g \in Handlers : reqs'[g] = reqs[g] /\ phase'[g] = phase[g]
           /\ \A g \in Handlers' : g \in Handlers \/ phase'[g] = "queued"
<1>1. CASE MainStep \/ ReconnectClose \/ Fault \/ UNCHANGED vars
  <2>1. UNCHANGED <<reqs, phase>> /\ (UNCHANGED <<inbox, outbox>> \/ Deliver)
    BY <1>1, MainFrame
  <2>2. Posted' = Posted
    BY <2>1, DeliverKeepsOrder DEF Posted
  <2>3. UNCHANGED state
    BY <1>1 DEF MainStep, StartUp, Deliver, ReconnectClose, ReconnectInit, ReconnectCheck, Fault, vars
  <2>4. QED
    BY <2>1, <2>2, <2>3 DEF Handlers
<1>2. CASE \E c \in Clients, body \in Bodies : Receive(c, body)
  <2>1. PICK c \in Clients, body \in Bodies : Receive(c, body)
    BY <1>2
  <2>2. UNCHANGED state
    BY <2>1 DEF Receive
  <2>3. Posted' = Posted
    BY <2>1, ReceiveFrame DEF Posted
  <2>4. QED
    BY <2>1, <2>2, <2>3, ReceiveFrame
<1>3. QED
  BY <1>1, <1>2

-----------------------------------------------------------------------------
(* One answer to every message.  The invariant adds why a login may be     *)
(* dropped - the database is only ever away because of a fault or a        *)
(* reconnect - and that a handler that fetches a text has said LOGGED_IN.  *)

CauseInv ==
    /\ ~mysql => faults > 0
    /\ conn \in {"stale", "closed"} => faults > 0
    /\ conn = "absent" => main \in {"start", "init_database"}
    /\ main = "start" => reqs = <<>>
    /\ main \in {"init_database", "check"} => reconnects > 0

Once(h) ==
    /\ \A i, j \in Acks(h) : i = j
    /\ \A i, j \in TextsSent(h) : i = j
    /\ \A j \in TextsSent(h) :
          \E i \in Acks(h) : i < j /\ IsReply(Posted[i], "login_ack", "LOGGED_IN")
    /\ phase[h] \in {"queued", "started", "commit"} => Acks(h) = {} /\ TextsSent(h) = {}
    /\ phase[h] = "fetch" =>
          /\ TextsSent(h) = {} /\ Kind(h) = "login"
          /\ \E i \in Acks(h) : IsReply(Posted[i], "login_ack", "LOGGED_IN")
    /\ phase[h] = "done" =>
          \/ Acks(h) # {} /\ Kind(h) # "junk"
          \/ Acks(h) = {} /\ Kind(h) = "junk"
          \/ Acks(h) = {} /\ Dropped(h)

OnceInv == CauseInv /\ \A h \in Handlers : Once(h)

LEMMA CauseStep ==
    ASSUME SrvTypeOK, CauseInv, [Next]_vars
    PROVE  CauseInv' /\ (reconnects + faults > 0 => reconnects' + faults' > 0)
<1>0. /\ reconnects \in Nat /\ faults \in Nat /\ mysql \in BOOLEAN
      /\ conn \in {"absent", "closed", "open", "stale"}
  BY ServerAssumption DEF SrvTypeOK, DbTypeOK, ServerAssumption
<1>1. CASE UNCHANGED vars \/ Quiet
  BY <1>1 DEF Quiet, vars, dbVars, CauseInv
<1>2. ASSUME NEW h \in Handlers, HandlerStep(h)
      PROVE  CauseInv' /\ (reconnects + faults > 0 => reconnects' + faults' > 0)
  <2>1. UNCHANGED <<reqs, main, reconnects, faults>>
    BY <1>2, HandlerSays DEF mainVars
  <2>2. UNCHANGED mysql /\ conn' \in {conn, Connected}
    BY <1>2, HandlerFrames DEF DbStep
  <2>3. QED
    BY <2>1, <2>2 DEF CauseInv, Connected
<1>3. ASSUME NEW c \in Clients, NEW body \in Bodies, Receive(c, body)
      PROVE  CauseInv' /\ (reconnects + faults > 0 => reconnects' + faults' > 0)
  BY <1>3 DEF Receive, mainVars, dbVars, CauseInv
<1>4. CASE StartUp \/ ReconnectInit
  BY <1>0, <1>4 DEF StartUp, ReconnectInit, init_database, CauseInv
<1>5. CASE Deliver \/ ReconnectCheck
  BY <1>5 DEF Deliver, ReconnectCheck, mainVars, dbVars, Connected, ErrorSeen, CauseInv
<1>6. CASE ReconnectClose
  BY <1>0, <1>6 DEF ReconnectClose, close_database, CauseInv
<1>7. CASE Fault
  BY <1>0, <1>7 DEF Fault, MysqlDown, MysqlUp, CauseInv
<1>8. QED
  BY <1>1, <1>2, <1>3, <1>4, <1>5, <1>6, <1>7 DEF Next, MainStep

(* A handler that did not move, and to which nothing was said.             *)
LEMMA OnceStays ==
    ASSUME SrvTypeOK, NEW g \in Handlers, Once(g),
           phase'[g] = phase[g], reqs'[g] = reqs[g],
           Acks(g)' = Acks(g), TextsSent(g)' = TextsSent(g),
           \A i \in DOMAIN Posted : Posted'[i] = Posted[i],
           reconnects + faults > 0 => reconnects' + faults' > 0
    PROVE  Once(g)'
<1>1. \A i \in Acks(g) : Posted'[i] = Posted[i]
  BY DEF Acks, RepliesTo
<1>2. Kind(g)' = Kind(g)
  BY DEF Kind, Body
<1>3. Dropped(g) => Dropped(g)'
  BY DEF Dropped, Kind, Body
<1>4. QED
  BY <1>1, <1>2, <1>3 DEF Once, IsReply

(* The handler whose step it was.                                          *)
LEMMA OnceSaid ==
    ASSUME SrvTypeOK, CauseInv, NEW h \in Handlers, Once(h), HandlerStep(h), NEW p, Says(h, p)
    PROVE  Once(h)'
<1>0. /\ UNCHANGED <<reqs, inbox, main, reconnects, faults>> /\ Kind(h)' = Kind(h)
      /\ reconnects \in Nat /\ faults \in Nat /\ phase[h] # "done"
      /\ DOMAIN phase = Handlers
  <2>1. UNCHANGED <<reqs, inbox, main, reconnects, faults>>
    BY HandlerSays DEF mainVars
  <2>2. phase[h] # "done"
    BY HandlerFrames DEF HandlerFrame
  <2>3. QED
    BY <2>1, <2>2, ServerAssumption DEF Kind, Body, SrvTypeOK, ServerAssumption, Handlers
<1>1. ASSUME MoveTo(h, p) PROVE phase'[h] = p
  BY <1>0, <1>1 DEF MoveTo
<1>2. CASE SaysNothing(h, p)
  <2>1. Posted' = Posted /\ phase'[h] = p
    BY <1>1, <1>2 DEF SaysNothing, Posted
  <2>2. Acks(h)' = Acks(h) /\ TextsSent(h)' = TextsSent(h)
    BY <2>1 DEF Acks, TextsSent, RepliesTo, IsAck
  <2>3. CASE p \in {"started", "commit"}
    BY <1>0, <1>2, <2>1, <2>2, <2>3 DEF SaysNothing, Once
  <2>4. CASE phase[h] = "started" /\ p = "done"
    <3>1. Kind(h) = "junk" \/ (Kind(h) = "login" /\ ~Selects(Body(h).title))
      BY <1>2, <2>4 DEF SaysNothing
    <3>2. Kind(h) = "login" /\ ~Selects(Body(h).title) => Dropped(h)'
      BY <1>0 DEF Selects, Dropped, Body, Connected, CauseInv, SrvTypeOK, DbTypeOK, Handlers
    <3>3. QED
      BY <1>0, <2>1, <2>2, <2>4, <3>1, <3>2 DEF Once
  <2>5. CASE phase[h] = "fetch" /\ p = "done"
    BY <1>0, <2>1, <2>2, <2>5 DEF Once, IsReply
  <2>6. QED
    BY <1>2, <2>3, <2>4, <2>5 DEF SaysNothing
<1>3. ASSUME NEW r \in Replies, SaysAck(h, r, p) PROVE Once(h)'
  <2> DEFINE n == Len(Posted) + 1
  <2>1. /\ r.to = h /\ IsAck(r) /\ Posted' = Append(Posted, r) /\ phase'[h] = p
        /\ phase[h] \in {"started", "commit"} /\ Kind(h) # "junk"
        /\ p = "done" \/ (p = "fetch" /\ Kind(h) = "login" /\ IsReply(r, "login_ack", "LOGGED_IN"))
    BY <1>1, <1>3 DEF SaysAck
  <2>2. Acks(h)' = Acks(h) \cup {n} /\ TextsSent(h)' = TextsSent(h) /\ Posted'[n] = r
    BY <2>1, RepliesGrow
  <2>3. Acks(h) = {} /\ TextsSent(h) = {}
    BY <2>1 DEF Once
  <2> HIDE DEF n
  <2>4. QED
    BY <1>0, <2>1, <2>2, <2>3 DEF Once, IsReply
<1>4. ASSUME NEW r \in Replies, SaysText(h, r, p) PROVE Once(h)'
  <2> DEFINE n == Len(Posted) + 1
  <2>1. /\ r.to = h /\ ~IsAck(r) /\ Posted' = Append(Posted, r) /\ phase'[h] = "done"
        /\ phase[h] = "fetch"
    BY <1>1, <1>4 DEF SaysText
  <2>2. /\ Acks(h)' = Acks(h) /\ TextsSent(h)' = TextsSent(h) \cup {n}
        /\ \A i \in DOMAIN Posted : i < n /\ Posted'[i] = Posted[i]
    BY <2>1, RepliesGrow
  <2>3. TextsSent(h) = {} /\ Kind(h) = "login" /\ \A i, j \in Acks(h) : i = j
    BY <2>1 DEF Once
  <2>4. PICK i \in Acks(h) : IsReply(Posted[i], "login_ack", "LOGGED_IN")
    BY <2>1 DEF Once
  <2>5. i < n /\ IsReply(Posted'[i], "login_ack", "LOGGED_IN")
    BY <2>2, <2>4 DEF Acks, RepliesTo, IsReply
  <2> HIDE DEF n
  <2>6. TextsSent(h)' = {n} /\ i \in Acks(h)'
    BY <2>2, <2>3
  <2>7. \A j \in TextsSent(h)' :
            \E a \in Acks(h)' : a < j /\ IsReply(Posted'[a], "login_ack", "LOGGED_IN")
    BY <2>5, <2>6
  <2>8. Acks(h)' # {} /\ Kind(h)' # "junk" /\ phase'[h] = "done"
    BY <1>0, <2>1, <2>3, <2>6
  <2>9. QED
    BY <2>2, <2>3, <2>6, <2>7, <2>8 DEF Once, IsReply
<1>5. QED
  BY <1>2, <1>3, <1>4 DEF Says

(* Every message is answered once, whatever the threads, the reconnect and *)
(* MySQL do; only a login can be dropped, and only because of those or of  *)
(* a title that the spliced SELECT cannot hold.                            *)
THEOREM OneAnswer == Spec => []AnsweredOnce
<1>1. Init => OnceInv
  BY DEF Init, DbInit, OnceInv, CauseInv, Handlers
<1>2. SrvTypeOK /\ AnswerInv /\ OnceInv /\ [Next]_vars => OnceInv'
  <2> SUFFICES ASSUME SrvTypeOK, AnswerInv, OnceInv, [Next]_vars PROVE OnceInv'
    OBVIOUS
  <2>1. CauseInv' /\ (reconnects + faults > 0 => reconnects' + faults' > 0)
    BY CauseStep DEF OnceInv
  <2>2. ASSUME NEW h \in Handlers, HandlerStep(h), NEW g \in Handlers' PROVE Once(g)'
    <3>1. PICK p : Says(h, p)
      BY <2>2, HandlerSays
    <3>2. g \in Handlers /\ reqs' = reqs /\ h \in Handlers /\ Once(g)
      BY <2>2, HandlerSays DEF Handlers, OnceInv
    <3>3. CASE g = h
      BY <2>2, <3>1, <3>2, <3>3, OnceSaid DEF OnceInv
    <3>4. CASE g # h
      <4>1. phase'[g] = phase[g]
        BY <3>1, <3>2, <3>4 DEF Says, SaysNothing, SaysAck, SaysText, MoveTo, SrvTypeOK, Handlers
      <4>2. CASE SaysNothing(h, p)
        <5>1. Posted' = Posted
          BY <2>2, <4>2, HandlerSays DEF SaysNothing, Posted
        <5>2. Acks(g)' = Acks(g) /\ TextsSent(g)' = TextsSent(g)
          BY <5>1 DEF Acks, TextsSent, RepliesTo, IsAck
        <5>3. QED
          BY <2>1, <3>2, <4>1, <5>1, <5>2, OnceStays
      <4>3. ASSUME NEW r \in Replies, SaysAck(h, r, p) \/ SaysText(h, r, p) PROVE Once(g)'
        <5>1. r.to = h /\ Posted' = Append(Posted, r)
          BY <4>3 DEF SaysAck, SaysText
        <5>2. /\ Acks(g)' = Acks(g) /\ TextsSent(g)' = TextsSent(g)
              /\ \A i \in DOMAIN Posted : Posted'[i] = Posted[i]
          BY <3>4, <5>1, RepliesGrow
        <5>3. QED
          BY <2>1, <3>2, <4>1, <5>2, OnceStays
      <4>4. QED
        BY <3>1, <4>2, <4>3 DEF Says
    <3>5. QED
      BY <3>3, <3>4
  <2>3. ASSUME \/ MainStep \/ ReconnectClose \/ Fault \/ UNCHANGED vars
               \/ \E c \in Clients, body \in Bodies : Receive(c, body),
               NEW g \in Handlers'
        PROVE  Once(g)'
    <3>1. /\ Posted' = Posted
          /\ g \in Handlers => reqs'[g] = reqs[g] /\ phase'[g] = phase[g]
          /\ g \in Handlers \/ phase'[g] = "queued"
      BY <2>3, OthersSayNothing
    <3>2. Acks(g)' = Acks(g) /\ TextsSent(g)' = TextsSent(g)
      BY <3>1 DEF Acks, TextsSent, RepliesTo, IsAck
    <3>3. CASE g \in Handlers
      BY <2>1, <3>1, <3>2, <3>3, OnceStays DEF OnceInv
    <3>4. CASE g \notin Handlers
      <4>1. Acks(g) = {} /\ TextsSent(g) = {}
        BY <3>4, PostedTo DEF Acks, TextsSent, RepliesTo
      <4>2. phase'[g] = "queued"
        BY <3>1, <3>4
      <4>3. QED
        BY <3>2, <4>1, <4>2 DEF Once
    <3>5. QED
      BY <3>3, <3>4
  <2>4. QED
    BY <2>1, <2>2, <2>3 DEF Next, Quiet, OnceInv
<1>3. OnceInv => AnsweredOnce
  <2> SUFFICES ASSUME OnceInv, NEW h \in Handlers
               PROVE  /\ \A i, j \in Acks(h) : i = j
                      /\ \A i, j \in TextsSent(h) : i = j
                      /\ \A j \in TextsSent(h) :
                            \E i \in Acks(h) : i < j /\ IsReply(Posted[i], "login_ack", "LOGGED_IN")
                      /\ phase[h] \in {"queued", "started", "commit"} => RepliesTo(h) = {}
                      /\ phase[h] = "fetch" => Acks(h) # {} /\ TextsSent(h) = {}
                      /\ phase[h] = "done" =>
                            \/ Acks(h) # {} /\ Kind(h) # "junk"
                            \/ Acks(h) = {} /\ Kind(h) = "junk"
                            \/ Acks(h) = {} /\ Dropped(h)
    BY DEF AnsweredOnce
  <2>1. Once(h)
    BY DEF OnceInv
  <2>2. Acks(h) = {} /\ TextsSent(h) = {} => RepliesTo(h) = {}
    BY DEF Acks, TextsSent
  <2>3. QED
    BY <2>1, <2>2 DEF Once
<1>4. QED
  BY <1>1, <1>2, <1>3, TypeCorrect, AnswersInductive, PTL DEF Spec

-----------------------------------------------------------------------------
(* A session registers only after an offer.  The invariant: the session    *)
(* mutex; who is between the INSERT and its commit found the session in    *)
(* NO_SUCH_USER and nobody changed that since; and a session in that state *)
(* has just been told so.                                                  *)

OneInSession ==
    \A g, h \in Handlers :
        /\ phase[g] \in {"commit", "fetch"} /\ phase[h] \in {"commit", "fetch"}
        /\ Client(g) = Client(h)
        => g = h

Offered(c) ==
    \E j \in LoginAcks(c) : /\ Posted[j].value = "NO_SUCH_USER"
                            /\ \A k \in LoginAcks(c) : k <= j

OfferInv ==
    /\ OneInSession
    /\ \A c \in Clients : state[c] = "NO_SUCH_USER" => Offered(c)
    /\ \A h \in Handlers : phase[h] = "commit" /\ Kind(h) = "login"
                              => state[Client(h)] = "NO_SUCH_USER"
    /\ RegisterAfterOffer

LEMMA LoginAcksGrow ==
    ASSUME SrvTypeOK, NEW r \in Replies, Posted' = Append(Posted, r), reqs' = reqs
    PROVE  LET n == Len(Posted) + 1
           IN \A c : LoginAcks(c)' = IF /\ r.kind = "login_ack"
                                        /\ Client(r.to) = c /\ Kind(r.to) = "login"
                                     THEN LoginAcks(c) \cup {n} ELSE LoginAcks(c)
<1> DEFINE n == Len(Posted) + 1
<1>1. /\ DOMAIN Posted' = DOMAIN Posted \cup {n} /\ Posted'[n] = r
      /\ \A i \in DOMAIN Posted : Posted'[i] = Posted[i]
  BY RepliesGrow
<1>2. \A g : Client(g)' = Client(g) /\ Kind(g)' = Kind(g)
  BY DEF Client, Kind, Body
<1> HIDE DEF n
<1>3. ASSUME NEW c
      PROVE  LoginAcks(c)' = IF r.kind = "login_ack" /\ Client(r.to) = c /\ Kind(r.to) = "login"
                             THEN LoginAcks(c) \cup {n} ELSE LoginAcks(c)
  BY <1>1, <1>2 DEF LoginAcks
<1>4. QED
  BY <1>3 DEF n

(* A session that hears nothing about a login, and whose state stays.      *)
RegisteredAfter(c) ==
    \A i \in LoginAcks(c) :
        Posted[i].value \in {"REGISTERED", "REGISTER_FAIL"} =>
            \E j \in LoginAcks(c) :
                /\ j < i /\ Posted[j].value = "NO_SUCH_USER"
                /\ \A k \in LoginAcks(c) : k <= j \/ i <= k

SessionInv(c) ==
    /\ state[c] = "NO_SUCH_USER" => Offered(c)
    /\ RegisteredAfter(c)

LEMMA SessionStays ==
    ASSUME NEW c, SessionInv(c), LoginAcks(c)' = LoginAcks(c), state'[c] = state[c],
           \A i \in DOMAIN Posted : Posted'[i] = Posted[i]
    PROVE  SessionInv(c)'
<1>1. \A i \in LoginAcks(c) : Posted'[i] = Posted[i]
  BY DEF LoginAcks
<1>2. QED
  BY <1>1 DEF SessionInv, Offered, RegisteredAfter

(* A session that hears about one.                                         *)
LEMMA SessionHears ==
    ASSUME SrvTypeOK, NEW r \in Replies, Posted' = Append(Posted, r), reqs' = reqs,
           NEW c, SessionInv(c), r.kind = "login_ack", Client(r.to) = c, Kind(r.to) = "login",
           r.value \in {"REGISTERED", "REGISTER_FAIL"} => state[c] = "NO_SUCH_USER",
           state'[c] = r.value
    PROVE  SessionInv(c)'
<1>0. /\ LoginAcks(c) \subseteq DOMAIN Posted
      /\ LoginAcks(c)' = LoginAcks(c) \cup {Len(Posted) + 1}
  BY LoginAcksGrow DEF LoginAcks
<1>1. PICK n \in Nat :
          /\ LoginAcks(c)' = LoginAcks(c) \cup {n} /\ Posted'[n] = r
          /\ \A i \in LoginAcks(c) : i \in Nat /\ i < n /\ Posted'[i] = Posted[i]
  BY <1>0, RepliesGrow
<1>2. state'[c] = "NO_SUCH_USER" => Offered(c)'
  <2> SUFFICES ASSUME state'[c] = "NO_SUCH_USER"
               PROVE  \E j \in LoginAcks(c)' : /\ Posted'[j].value = "NO_SUCH_USER"
                                               /\ \A k \in LoginAcks(c)' : k <= j
    BY DEF Offered
  <2>1. n \in LoginAcks(c)' /\ Posted'[n].value = "NO_SUCH_USER"
    BY <1>1
  <2>2. ASSUME NEW k \in LoginAcks(c)' PROVE k <= n
    <3>1. k = n \/ (k \in Nat /\ k < n)
      BY <1>1, <2>2
    <3>2. QED
      BY <3>1
  <2>3. QED
    BY <2>1, <2>2
<1>3. ASSUME NEW i \in LoginAcks(c)', Posted'[i].value \in {"REGISTERED", "REGISTER_FAIL"}
      PROVE  \E j \in LoginAcks(c)' :
                 /\ j < i /\ Posted'[j].value = "NO_SUCH_USER"
                 /\ \A k \in LoginAcks(c)' : k <= j \/ i <= k
  <2>1. CASE i = n
    <3>1. PICK j \in LoginAcks(c) : /\ Posted[j].value = "NO_SUCH_USER"
                                    /\ \A k \in LoginAcks(c) : k <= j
      BY <1>1, <1>3, <2>1 DEF SessionInv, Offered
    <3>2. j \in LoginAcks(c)' /\ j < n /\ Posted'[j].value = "NO_SUCH_USER"
      BY <1>1, <3>1
    <3>3. ASSUME NEW k \in LoginAcks(c)' PROVE k <= j \/ n <= k
      <4>1. CASE k = n
        BY <4>1
      <4>2. CASE k # n
        BY <1>1, <3>1, <3>3, <4>2
      <4>3. QED
        BY <4>1, <4>2
    <3>4. QED
      BY <2>1, <3>2, <3>3
  <2>2. CASE i # n
    <3>1. i \in LoginAcks(c) /\ Posted[i].value \in {"REGISTERED", "REGISTER_FAIL"}
      BY <1>1, <1>3, <2>2
    <3>2. PICK j \in LoginAcks(c) : /\ j < i /\ Posted[j].value = "NO_SUCH_USER"
                                    /\ \A k \in LoginAcks(c) : k <= j \/ i <= k
      BY <3>1 DEF SessionInv, RegisteredAfter
    <3>3. j \in LoginAcks(c)' /\ Posted'[j].value = "NO_SUCH_USER"
      BY <1>1, <3>2
    <3>4. ASSUME NEW k \in LoginAcks(c)' PROVE k <= j \/ i <= k
      <4>1. CASE k = n
        BY <1>1, <3>1, <4>1
      <4>2. CASE k # n
        BY <1>1, <3>2, <3>4, <4>2
      <4>3. QED
        BY <4>1, <4>2
    <3>5. QED
      BY <3>2, <3>3, <3>4
  <2>3. QED
    BY <2>1, <2>2
<1>4. QED
  BY <1>2, <1>3 DEF SessionInv, RegisteredAfter

(* The mutex of a session and what it guards.                              *)
LEMMA SessionMutex ==
    ASSUME SrvTypeOK, OneInSession, NEW h \in Handlers, HandlerStep(h), NEW p, Says(h, p)
    PROVE  /\ OneInSession'
           /\ \A g \in Handlers : g # h => phase'[g] = phase[g]
           /\ phase'[h] = p
           /\ phase[h] = "commit" \/ (phase[h] = "started" /\ SessionUnlocked(Client(h)))
                 \/ UNCHANGED state
           /\ p \in {"commit", "fetch"} => phase[h] = "started" /\ SessionUnlocked(Client(h))
<1>1. reqs' = reqs /\ Handlers' = Handlers /\ DOMAIN phase = Handlers
  BY HandlerSays DEF Handlers, SrvTypeOK
<1>2. \A g : Client(g)' = Client(g)
  BY <1>1 DEF Client
<1>3. MoveTo(h, p)
  BY DEF Says, SaysNothing, SaysAck, SaysText
<1>4. phase'[h] = p /\ \A g \in Handlers : g # h => phase'[g] = phase[g]
  BY <1>1, <1>3 DEF MoveTo
<1>5. p \in {"commit", "fetch"} => phase[h] = "started" /\ SessionUnlocked(Client(h))
  BY DEF Says, SaysNothing, SaysAck, SaysText
<1>6. phase[h] = "commit" \/ (phase[h] = "started" /\ SessionUnlocked(Client(h)))
          \/ UNCHANGED state
  BY DEF Says, SaysNothing, SaysAck, SaysText
<1>7. OneInSession'
  <2> SUFFICES ASSUME NEW f \in Handlers, NEW g \in Handlers,
                      phase'[f] \in {"commit", "fetch"}, phase'[g] \in {"commit", "fetch"},
                      Client(f) = Client(g)
               PROVE  f = g
    BY <1>1, <1>2 DEF OneInSession
  <2>1. CASE f # h /\ g # h
    BY <1>4, <2>1 DEF OneInSession
  <2>2. CASE f = h /\ g # h
    BY <1>4, <1>5, <2>2 DEF SessionUnlocked
  <2>3. CASE f # h /\ g = h
    BY <1>4, <1>5, <2>3 DEF SessionUnlocked
  <2>4. QED
    BY <2>1, <2>2, <2>3
<1>8. QED
  BY <1>4, <1>5, <1>6, <1>7

LEMMA OfferHandler ==
    ASSUME SrvTypeOK, OfferInv, NEW h \in Handlers, HandlerStep(h)
    PROVE  OfferInv'
<1>1. PICK p : Says(h, p)
  BY HandlerSays
<1>2. reqs' = reqs /\ inbox' = inbox /\ Handlers' = Handlers /\ Client(h) \in Clients
      /\ state \in [Clients -> SessionStates]
  BY HandlerSays, HandlerTypes DEF Handlers, SrvTypeOK
<1>3. \A g : Client(g)' = Client(g) /\ Kind(g)' = Kind(g)
  BY <1>2 DEF Client, Kind, Body
<1>4. OneInSession'
  BY <1>1, SessionMutex DEF OfferInv
<1>5. ASSUME NEW c \in Clients PROVE SessionInv(c)'
  <2>0. SessionInv(c)
    BY DEF OfferInv, SessionInv, RegisterAfterOffer, RegisteredAfter
  <2>1. CASE SaysNothing(h, p)
    <3>1. Posted' = Posted /\ UNCHANGED state
      BY <2>1 DEF SaysNothing, Posted
    <3>2. LoginAcks(c)' = LoginAcks(c)
      BY <1>3, <3>1 DEF LoginAcks
    <3>3. QED
      BY <2>0, <3>1, <3>2, SessionStays
  <2>2. ASSUME NEW r \in Replies, SaysText(h, r, p) PROVE SessionInv(c)'
    <3>1. r.kind # "login_ack" /\ Posted' = Append(Posted, r) /\ UNCHANGED state
      BY <2>2 DEF SaysText, IsAck
    <3>2. LoginAcks(c)' = LoginAcks(c) /\ \A i \in DOMAIN Posted : Posted'[i] = Posted[i]
      BY <1>2, <3>1, RepliesGrow, LoginAcksGrow
    <3>3. QED
      BY <2>0, <3>1, <3>2, SessionStays
  <2>3. ASSUME NEW r \in Replies, SaysAck(h, r, p) PROVE SessionInv(c)'
    <3>1. r.to = h /\ Posted' = Append(Posted, r)
      BY <2>3 DEF SaysAck
    <3>2. \A i \in DOMAIN Posted : Posted'[i] = Posted[i]
      BY <3>1, RepliesGrow
    <3>3. CASE ~(Kind(h) = "login" /\ r.kind = "login_ack")
      <4>1. UNCHANGED state
        BY <2>3, <3>3 DEF SaysAck
      <4>2. LoginAcks(c)' = LoginAcks(c)
        BY <1>2, <3>1, <3>3, LoginAcksGrow
      <4>3. QED
        BY <2>0, <3>2, <4>1, <4>2, SessionStays
    <3>4. CASE Kind(h) = "login" /\ r.kind = "login_ack" /\ Client(h) # c
      <4>1. state'[c] = state[c]
        BY <1>2, <2>3, <3>4 DEF SaysAck
      <4>2. LoginAcks(c)' = LoginAcks(c)
        BY <1>2, <3>1, <3>4, LoginAcksGrow
      <4>3. QED
        BY <2>0, <3>2, <4>1, <4>2, SessionStays
    <3>5. CASE Kind(h) = "login" /\ r.kind = "login_ack" /\ Client(h) = c
      <4>1. state'[c] = r.value
        BY <1>2, <2>3, <3>5 DEF SaysAck
      <4>2. r.value \in {"REGISTERED", "REGISTER_FAIL"} => state[c] = "NO_SUCH_USER"
        BY <2>3, <3>5 DEF SaysAck, OfferInv
      <4>3. QED
        BY <1>2, <2>0, <3>1, <3>5, <4>1, <4>2, SessionHears
    <3>6. QED
      BY <3>3, <3>4, <3>5
  <2>4. QED
    BY <1>1, <2>1, <2>2, <2>3 DEF Says
<1>6. ASSUME NEW g \in Handlers, phase'[g] = "commit", Kind(g) = "login"
      PROVE  state'[Client(g)] = "NO_SUCH_USER"
  <2>1. CASE g = h
    <3>1. p = "commit"
      BY <1>1, <1>6, <2>1, SessionMutex DEF OfferInv
    <3>2. QED
      BY <1>1, <1>6, <2>1, <3>1 DEF Says, SaysNothing, SaysAck, SaysText
  <2>2. CASE g # h
    <3>1. phase[g] = "commit"
      BY <1>1, <1>6, <2>2, SessionMutex DEF OfferInv
    <3>2. state[Client(g)] = "NO_SUCH_USER" /\ Client(g) \in Clients
      BY <1>6, <3>1, HandlerTypes DEF OfferInv
    <3>3. CASE Client(g) # Client(h)
      BY <1>1, <1>2, <3>2, <3>3 DEF Says, SaysNothing, SaysAck, SaysText
    <3>4. CASE Client(g) = Client(h)
      <4>1. ~SessionUnlocked(Client(h))
        BY <3>1, <3>4 DEF SessionUnlocked
      <4>2. phase[h] # "commit"
        BY <2>2, <3>1, <3>4 DEF OfferInv, OneInSession
      <4>3. UNCHANGED state
        BY <1>1, <4>1, <4>2, SessionMutex DEF OfferInv
      <4>4. QED
        BY <3>2, <4>3
    <3>5. QED
      BY <3>3, <3>4
  <2>3. QED
    BY <2>1, <2>2
<1>7. QED
  BY <1>2, <1>3, <1>4, <1>5, <1>6 DEF OfferInv, SessionInv, RegisterAfterOffer, RegisteredAfter

LEMMA OfferOthers ==
    ASSUME SrvTypeOK, AnswerInv, OfferInv,
           \/ MainStep \/ ReconnectClose \/ Fault \/ UNCHANGED vars
           \/ \E c \in Clients, body \in Bodies : Receive(c, body)
    PROVE  OfferInv'
<1>1. /\ Posted' = Posted /\ UNCHANGED state
      /\ Handlers \subseteq Handlers'
      /\ \A g \in Handlers : reqs'[g] = reqs[g] /\ phase'[g] = phase[g]
      /\ \A g \in Handlers' : g \in Handlers \/ phase'[g] = "queued"
  BY OthersSayNothing
<1>2. \A g \in Handlers : Client(g)' = Client(g) /\ Kind(g)' = Kind(g)
  BY <1>1 DEF Client, Kind, Body
<1>3. OneInSession'
  BY <1>1, <1>2 DEF OfferInv, OneInSession
<1>4. ASSUME NEW c \in Clients PROVE SessionInv(c)'
  <2>1. SessionInv(c)
    BY DEF OfferInv, SessionInv, RegisterAfterOffer, RegisteredAfter
  <2>2. LoginAcks(c)' = LoginAcks(c)
    BY <1>1, <1>2, PostedTo DEF LoginAcks
  <2>3. QED
    BY <1>1, <2>1, <2>2, SessionStays
<1>5. ASSUME NEW g \in Handlers', phase'[g] = "commit", Kind(g)' = "login"
      PROVE  state'[Client(g)'] = "NO_SUCH_USER"
  BY <1>1, <1>2, <1>5 DEF OfferInv
<1>6. QED
  BY <1>3, <1>4, <1>5 DEF OfferInv, SessionInv, RegisterAfterOffer, RegisteredAfter

LEMMA OfferInductive == Spec => []OfferInv
<1>1. Init => OfferInv
  <2> SUFFICES ASSUME Init PROVE OfferInv
    OBVIOUS
  <2>1. /\ reqs = <<>> /\ inbox = <<>> /\ outbox = <<>>
        /\ \A c \in Clients : state[c] = "INIT"
    BY DEF Init
  <2>2. Handlers = {} /\ Posted = <<>>
    BY <2>1 DEF Handlers, Posted
  <2>3. \A c : LoginAcks(c) = {}
    BY <2>2 DEF LoginAcks
  <2>4. QED
    BY <2>1, <2>2, <2>3 DEF OfferInv, OneInSession, RegisterAfterOffer
<1>2. SrvTypeOK /\ AnswerInv /\ OfferInv /\ [Next]_vars => OfferInv'
  BY OfferHandler, OfferOthers DEF Next, Quiet
<1>3. QED
  BY <1>1, <1>2, TypeCorrect, AnswersInductive, PTL DEF Spec

(* REGISTERED and REGISTER_FAIL are what a session hears right after       *)
(* NO_SUCH_USER, even when MySQL comes and goes.                           *)
THEOREM OfferedFirst == Spec => []RegisterAfterOffer
BY OfferInductive, PTL DEF OfferInv

(* As long as MySQL stays up, what logins are told is sound: one message   *)
(* creates a title, right after its session was offered to, and only the   *)
(* password of that message opens it.                                      *)
THEOREM SoundLogins == ASSUME MaxFaults = 0 PROVE Spec => []LoginsAreSound
<1>1. RegisteredOnce /\ RegisterAfterOffer /\ LoginMatches => LoginsAreSound
  BY DEF LoginsAreSound
<1>2. QED
  BY <1>1, OneRegistration, OfferedFirst, OnlyItsPassword, PTL

-----------------------------------------------------------------------------
(* The refinement.  While MySQL stays up the server is a NotkaStore: the   *)
(* threads, the two mutexes, the transactions and the reconnects cannot be *)
(* told from one that serves a message at a time.                          *)

(* Nobody has the empty title: authenticate_user answers for it without a  *)
(* query, and register_user refuses it.                                    *)
EmptyInv ==
    /\ EmptyTitle \in Titles => users[EmptyTitle] = NoPassword
    /\ txn # NoTxn /\ txn.table = "users" => txn.key # EmptyTitle

LEMMA EmptyHandler ==
    ASSUME SrvTypeOK, EmptyInv, NEW h \in Handlers, HandlerStep(h)
    PROVE  EmptyInv'
<1>1. ASSUME \/ UNCHANGED <<txn, users>>
             \/ commit
             \/ UNCHANGED users /\ txn'.table # "users"
             \/ UNCHANGED users /\ txn'.key # EmptyTitle
      PROVE  EmptyInv'
  <2>1. CASE commit
    BY <2>1 DEF commit, Written, tables, EmptyInv, SrvTypeOK, DbTypeOK
  <2>2. QED
    BY <1>1, <2>1 DEF EmptyInv
<1>2. CASE Start(h) \/ Junk(h) \/ Syn(h) \/ LoginBad(h) \/ SaveShort(h)
  BY <1>1, <1>2 DEF Start, Junk, Syn, LoginBad, SaveShort, Answered, dbVars
<1>3. CASE Authenticate(h) \/ FetchNotka(h)
  BY <1>1, <1>3 DEF Authenticate, authenticate_user, FetchNotka, get_notka, dbVars, tables
<1>4. CASE Register(h)
  <2>1. register_user(Body(h).title, Body(h).password, "commit")
        \/ register_user(Body(h).title, Body(h).password, "throw")
    BY <1>4 DEF Register
  <2>2. QED
    BY <1>1, <2>1 DEF register_user, dbVars, tables
<1>5. CASE Save(h)
  <2>1. \E res : save_notka(Body(h).title, Body(h).text, res)
    BY <1>5 DEF Save
  <2>2. QED
    BY <1>1, <2>1 DEF save_notka, tables
<1>6. CASE RegisterCommit(h) \/ SaveCommit(h)
  BY <1>1, <1>6 DEF RegisterCommit, SaveCommit
<1>7. QED
  BY <1>2, <1>3, <1>4, <1>5, <1>6 DEF HandlerStep

LEMMA EmptyInductive == Spec => []EmptyInv
<1>1. Init => EmptyInv
  BY DEF Init, DbInit, EmptyInv
<1>2. SrvTypeOK /\ AnswerInv /\ EmptyInv /\ [Next]_vars => EmptyInv'
  <2> SUFFICES ASSUME SrvTypeOK, AnswerInv, EmptyInv, [Next]_vars PROVE EmptyInv'
    OBVIOUS
  <2>1. ASSUME NEW h \in Handlers, HandlerStep(h) PROVE EmptyInv'
    BY <2>1, EmptyHandler
  <2>2. CASE MainStep \/ ReconnectClose \/ Fault \/ UNCHANGED vars
    BY <2>2, MainFrame DEF EmptyInv
  <2>3. ASSUME NEW c \in Clients, NEW body \in Bodies, Receive(c, body) PROVE EmptyInv'
    BY <2>3 DEF Receive, dbVars, EmptyInv
  <2>4. QED
    BY <2>1, <2>2, <2>3 DEF Next, Quiet
<1>3. QED
  BY <1>1, <1>2, TypeCorrect, AnswersInductive, PTL DEF Spec

(* The mapped variables are the messages and, of each, its stage.          *)
Phases == {"queued", "started", "commit", "fetch", "done"}
StageOf(p) == CASE p = "done" -> "done" [] p = "fetch" -> "show" [] OTHER -> "asked"
StagesOf(s) == [h \in DOMAIN s |-> StageOf(s[h])]

LEMMA Messages ==
    ASSUME NEW s \in Seq([client : Clients, body : Bodies])
    PROVE  [h \in DOMAIN s |-> [client |-> s[h].client, body |-> s[h].body]] = s
<1>1. ASSUME NEW h \in DOMAIN s PROVE [client |-> s[h].client, body |-> s[h].body] = s[h]
  <2>1. s[h] \in [client : Clients, body : Bodies]
    BY <1>1, LenProperties
  <2>2. QED
    BY <2>1
<1>2. QED
  BY <1>1

LEMMA Stages ==
    ASSUME NEW s \in Seq(Phases)
    PROVE  /\ StagesOf(s) \in Seq({"asked", "show", "done"})
           /\ DOMAIN StagesOf(s) = DOMAIN s
           /\ StagesOf(Append(s, "queued")) = Append(StagesOf(s), "asked")
           /\ \A h \in DOMAIN s : \A p \in Phases :
                 StagesOf([s EXCEPT ![h] = p]) = [StagesOf(s) EXCEPT ![h] = StageOf(p)]
<1> DEFINE T == {"asked", "show", "done"}
           n == Len(s)
<1>1. n \in Nat /\ DOMAIN s = 1..n /\ \A h \in 1..n : s[h] \in Phases
  OBVIOUS
<1>2. \A p : StageOf(p) \in T
  BY DEF StageOf
<1>3. StagesOf(s) \in [1..n -> T]
  BY <1>1, <1>2 DEF StagesOf
<1>4. StagesOf(s) \in Seq(T)
  BY <1>1, <1>3
<1>5. StagesOf(Append(s, "queued")) = Append(StagesOf(s), "asked")
  <2>1. "queued" \in Phases /\ StageOf("queued") = "asked"
    BY DEF Phases, StageOf
  <2>2. /\ DOMAIN Append(s, "queued") = 1..(n + 1)
        /\ \A h \in 1..n : Append(s, "queued")[h] = s[h]
        /\ Append(s, "queued")[n + 1] = "queued"
    BY <1>1
  <2> DEFINE u == StagesOf(s)
  <2>3. /\ u \in Seq(T) /\ Len(u) = n /\ \A h \in 1..n : u[h] = StageOf(s[h])
    BY <1>1, <1>3, <1>4 DEF StagesOf
  <2> HIDE DEF u, n
  <2>4. /\ Append(u, "asked") \in [1..(n + 1) -> T]
        /\ \A h \in 1..n : Append(u, "asked")[h] = u[h]
        /\ Append(u, "asked")[n + 1] = "asked"
    <3>1. "asked" \in T
      OBVIOUS
    <3>2. /\ Append(u, "asked") \in Seq(T) /\ Len(Append(u, "asked")) = n + 1
          /\ \A h \in 1..n : Append(u, "asked")[h] = u[h]
          /\ Append(u, "asked")[n + 1] = "asked"
      BY <2>3, <3>1, AppendProperties
    <3>3. QED
      BY <3>2, LenProperties
  <2>5. StagesOf(Append(s, "queued")) = [h \in 1..(n + 1) |-> StageOf(Append(s, "queued")[h])]
    BY <2>2 DEF StagesOf
  <2>6. \A h \in 1..(n + 1) : StageOf(Append(s, "queued")[h]) = Append(u, "asked")[h]
    <3> SUFFICES ASSUME NEW h \in 1..(n + 1)
                 PROVE  StageOf(Append(s, "queued")[h]) = Append(u, "asked")[h]
      OBVIOUS
    <3>1. CASE h = n + 1
      BY <2>1, <2>2, <2>4, <3>1
    <3>2. CASE h \in 1..n
      BY <2>2, <2>3, <2>4, <3>2
    <3>3. h = n + 1 \/ h \in 1..n
      BY <1>1
    <3>4. QED
      BY <3>1, <3>2, <3>3
  <2>7. QED
    BY <2>4, <2>5, <2>6 DEF u
<1>6. ASSUME NEW h \in DOMAIN s, NEW p \in Phases
      PROVE  StagesOf([s EXCEPT ![h] = p]) = [StagesOf(s) EXCEPT ![h] = StageOf(p)]
  BY <1>6 DEF StagesOf
<1>7. QED
  BY <1>1, <1>3, <1>4, <1>5, <1>6

StoreInv == SrvTypeOK /\ AnswerInv /\ UpInv /\ OfferInv /\ EmptyInv

(* The mapping, before a step and after it.                                *)
MappedAsked == [h \in Handlers |-> [client |-> Client(h), body |-> Body(h)]]
MappedStage == [h \in Handlers |-> CASE phase[h] = "done"  -> "done"
                                     [] phase[h] = "fetch" -> "show"
                                     [] OTHER              -> "asked"]

LEMMA Mapped ==
    /\ SrvTypeOK => MappedAsked = reqs /\ MappedStage = StagesOf(phase)
    /\ SrvTypeOK' => MappedAsked' = reqs' /\ MappedStage' = StagesOf(phase')
<1>1. ASSUME SrvTypeOK PROVE MappedAsked = reqs /\ MappedStage = StagesOf(phase)
  BY <1>1, Messages DEF SrvTypeOK, MappedAsked, MappedStage, StagesOf, StageOf, Handlers, Client, Body
<1>2. ASSUME SrvTypeOK' PROVE MappedAsked' = reqs' /\ MappedStage' = StagesOf(phase')
  BY <1>2, Messages DEF SrvTypeOK, MappedAsked, MappedStage, StagesOf, StageOf, Handlers, Client, Body
<1>3. QED
  BY <1>1, <1>2

LEMMA ReceiveIsAsk ==
    ASSUME SrvTypeOK, SrvTypeOK', AnswerInv, NEW c \in Clients, NEW body \in Bodies, Receive(c, body)
    PROVE  Store!Ask(c, body)
<1>1. /\ reqs' = Append(reqs, [client |-> c, body |-> body])
      /\ phase' = Append(phase, "queued")
      /\ UNCHANGED <<state, users, notkas>>
  BY DEF Receive, dbVars
<1>2. Posted' = Posted
  BY OthersSayNothing
<1>3. StagesOf(phase') = Append(StagesOf(phase), "asked")
  BY <1>1, Stages DEF SrvTypeOK, Phases
<1>4. /\ MappedAsked' = Append(MappedAsked, [client |-> c, body |-> body])
      /\ MappedStage' = Append(MappedStage, "asked")
  BY <1>1, <1>3, Mapped
<1>5. QED
  BY <1>1, <1>2, <1>4 DEF Store!Ask, MappedAsked, MappedStage

(* What a step of a handler to phase p is to the store.                    *)
LEMMA MappedStep ==
    ASSUME SrvTypeOK, SrvTypeOK', NEW h \in Handlers, NEW p \in Phases, MoveTo(h, p), reqs' = reqs
    PROVE  /\ MappedAsked' = MappedAsked /\ DOMAIN MappedAsked = Handlers
           /\ MappedAsked[h].client = Client(h) /\ MappedAsked[h].body = Body(h)
           /\ MappedStage[h] = StageOf(phase[h])
           /\ MappedStage' = [MappedStage EXCEPT ![h] = StageOf(p)]
           /\ StageOf(p) = StageOf(phase[h]) => MappedStage' = MappedStage
<1>1. /\ phase \in Seq(Phases) /\ DOMAIN phase = Handlers /\ h \in DOMAIN phase
      /\ phase' = [phase EXCEPT ![h] = p]
  BY DEF SrvTypeOK, Phases, Handlers, MoveTo
<1>2. /\ MappedAsked = reqs /\ MappedAsked' = reqs'
      /\ MappedStage = StagesOf(phase) /\ MappedStage' = StagesOf(phase')
  BY Mapped
<1>3. StagesOf(phase') = [StagesOf(phase) EXCEPT ![h] = StageOf(p)]
  BY <1>1, Stages
<1>4. DOMAIN StagesOf(phase) = Handlers /\ StagesOf(phase)[h] = StageOf(phase[h])
  BY <1>1 DEF StagesOf
<1>5. StageOf(p) = StageOf(phase[h]) => [StagesOf(phase) EXCEPT ![h] = StageOf(p)] = StagesOf(phase)
  BY <1>4 DEF StagesOf
<1>6. QED
  BY <1>2, <1>3, <1>4, <1>5 DEF Handlers, Client, Body

(* What a step of a handler is to the store, and its message to it.        *)
LEMMA Served ==
    ASSUME SrvTypeOK, SrvTypeOK', NEW h \in Handlers, NEW p \in Phases, MoveTo(h, p), reqs' = reqs,
           phase[h] \in {"queued", "started", "commit"}
    PROVE  /\ Store!Serve(h, Kind(h), StageOf(p))
           /\ Store!Body(h) = Body(h) /\ Store!SessionState(h) = state[Client(h)]
           /\ \A s : state' = [state EXCEPT ![Client(h)] = s] => Store!SetState(h, s)
<1>1. /\ MappedAsked' = MappedAsked
      /\ MappedAsked[h].client = Client(h) /\ MappedAsked[h].body = Body(h)
      /\ MappedStage[h] = "asked"
      /\ MappedStage' = [MappedStage EXCEPT ![h] = StageOf(p)]
  BY MappedStep DEF StageOf
<1>2. Store!Body(h) = Body(h)
  BY <1>1 DEF Store!Body, MappedAsked
<1>3. QED
  BY <1>1, <1>2 DEF Store!Serve, Store!SessionState, Store!SetState, MappedAsked, MappedStage, Kind

LEMMA PostIsAnswer ==
    ASSUME SrvTypeOK, NEW h, NEW k, NEW v, Post(h, k, v), UNCHANGED inbox,
           [to |-> h, kind |-> k, value |-> v] \in Replies
    PROVE  Store!Answer(h, k, v)
BY PostAppends DEF Store!Answer

LEMMA TrivialMessages ==
    ASSUME SrvTypeOK, SrvTypeOK', NEW h \in Handlers,
           Junk(h) \/ Syn(h) \/ LoginBad(h) \/ SaveShort(h)
    PROVE  Store!Trivial(h)
<1>1. /\ Answered(h) /\ phase[h] = "started" /\ MoveTo(h, "done")
      /\ UNCHANGED <<reqs, inbox, state, users, notkas>>
  BY DEF Junk, Syn, LoginBad, SaveShort, Begin, Answered, dbVars
<1>2. /\ Store!Serve(h, Kind(h), "done")
      /\ Store!Body(h) = Body(h) /\ Store!SessionState(h) = state[Client(h)]
  <2>1. "done" \in Phases /\ StageOf("done") = "done"
    BY DEF Phases, StageOf
  <2>2. QED
    BY <1>1, <2>1, Served
<1>3. h \in Nat /\ state[Client(h)] \in SessionStates
  BY HandlerTypes DEF SrvTypeOK
<1>4. CASE Junk(h)
  <2>1. Kind(h) = "junk" /\ Posted' = Posted
    BY <1>1, <1>4 DEF Junk, Begin, Posted
  <2>2. QED
    BY <1>1, <1>2, <2>1 DEF Store!Trivial
<1>5. CASE Syn(h)
  <2>1. Kind(h) = "syn" /\ Store!Answer(h, "syn_ack", "")
    BY <1>1, <1>3, <1>5, PostIsAnswer, RepliesPosted DEF Syn, Begin
  <2>2. QED
    BY <1>1, <1>2, <2>1 DEF Store!Trivial
<1>6. CASE LoginBad(h)
  <2>1. [to |-> h, kind |-> "login_ack", value |-> state[Client(h)]] \in Replies
    BY <1>3, RepliesPosted
  <2>2. Kind(h) = "login_bad" /\ Store!Answer(h, "login_ack", state[Client(h)])
    BY <1>1, <1>6, <2>1, PostIsAnswer DEF LoginBad, Begin
  <2>3. QED
    BY <1>1, <1>2, <2>2 DEF Store!Trivial
<1>7. CASE SaveShort(h)
  <2>1. [to |-> h, kind |-> "save_ack", value |-> "ErrorTextLen"] \in Replies
    BY <1>3, RepliesPosted
  <2>2. Kind(h) = "save_short" /\ Store!Answer(h, "save_ack", "ErrorTextLen")
    BY <1>1, <1>7, <2>1, PostIsAnswer DEF SaveShort, Begin
  <2>3. QED
    BY <1>1, <1>2, <2>2 DEF Store!Trivial
<1>8. QED
  BY <1>4, <1>5, <1>6, <1>7

LEMMA AuthenticateIsLogin ==
    ASSUME StoreInv, SrvTypeOK', NEW h \in Handlers, Authenticate(h)
    PROVE  Store!Login(h) \/ Store!Refuse(h)
<1>0. SrvTypeOK /\ DbUp /\ EmptyInv
  BY DEF StoreInv, UpInv
<1>1. /\ phase[h] = "started" /\ Kind(h) = "login" /\ state[Client(h)] # "NO_SUCH_USER"
      /\ UNCHANGED <<reqs, inbox>>
      /\ Client(h) \in Clients /\ h \in Nat
      /\ Body(h).title \in Titles /\ Body(h).password \in Passwords
  BY <1>0, HandlerTypes DEF Authenticate, Begin, Registers
<1>2. PICK res \in {"match", "no_user", "mismatch", "throw"} :
          /\ authenticate_user(Body(h).title, Body(h).password, res)
          /\ \/ /\ res = "throw" /\ MoveTo(h, "done") /\ UNCHANGED <<state, outbox>>
             \/ /\ res # "throw"
                /\ state' = [state EXCEPT ![Client(h)] = StateFor(res)]
                /\ Post(h, "login_ack", StateFor(res))
                /\ MoveTo(h, FetchIfLoggedIn(res))
  BY DEF Authenticate
<1>3. UNCHANGED <<users, notkas>>
  BY <1>2 DEF authenticate_user, dbVars, tables
<1>4. ASSUME NEW p \in {"done", "fetch"}, MoveTo(h, p)
      PROVE  /\ Store!Serve(h, "login", IF p = "done" THEN "done" ELSE "show")
             /\ MappedAsked' = MappedAsked
             /\ Store!Body(h) = Body(h) /\ Store!SessionState(h) = state[Client(h)]
             /\ \A s : state' = [state EXCEPT ![Client(h)] = s] => Store!SetState(h, s)
  <2>1. p \in Phases /\ StageOf(p) = IF p = "done" THEN "done" ELSE "show"
    BY DEF Phases, StageOf
  <2>2. QED
    BY <1>0, <1>1, <1>4, <2>1, Served, MappedStep
<1>5. CASE res = "throw"
  <2>1. Posted' = Posted /\ UNCHANGED state /\ MoveTo(h, "done")
    BY <1>1, <1>2, <1>5 DEF Posted
  <2>2. /\ Store!Serve(h, "login", "done") /\ MappedAsked' = MappedAsked
        /\ Store!SessionState(h) # "NO_SUCH_USER"
    BY <1>1, <1>4, <2>1
  <2>3. QED
    BY <1>3, <2>1, <2>2 DEF Store!Refuse, MappedAsked
<1>6. CASE res # "throw"
  <2>1. /\ StateFor(res) = CASE res = "match" -> "LOGGED_IN"
                             [] res = "no_user" -> "NO_SUCH_USER"
                             [] res = "mismatch" -> "WRONG_PASSWORD"
        /\ StateFor(res) \in SessionStates
    BY <1>6 DEF StateFor, SessionStates
  <2>2. [to |-> h, kind |-> "login_ack", value |-> StateFor(res)] \in Replies
    BY <1>1, <2>1, RepliesPosted
  <2>3. Store!Answer(h, "login_ack", StateFor(res))
    BY <1>0, <1>1, <1>2, <1>6, <2>2, PostIsAnswer
  <2>4. \/ res = "no_user" /\ users[Body(h).title] = NoPassword
        \/ res = PasswordResult(Body(h).title, Body(h).password)
    BY <1>0, <1>1, <1>2, <1>6 DEF authenticate_user, EmptyInv
  <2>5. /\ MoveTo(h, IF res = "match" THEN "fetch" ELSE "done")
        /\ state' = [state EXCEPT ![Client(h)] = StateFor(res)]
    BY <1>2, <1>6 DEF FetchIfLoggedIn
  <2>6. /\ Store!Serve(h, "login", IF res = "match" THEN "show" ELSE "done")
        /\ Store!Body(h) = Body(h) /\ Store!SessionState(h) = state[Client(h)]
        /\ Store!SetState(h, StateFor(res))
    BY <1>4, <2>5
  <2>7. CASE users[Body(h).title] = NoPassword
    <3>1. res = "no_user"
      BY <1>1, <2>4, <2>7, DbAssumption DEF PasswordResult, DbAssumption
    <3>2. QED
      BY <1>1, <1>3, <2>1, <2>3, <2>6, <2>7, <3>1 DEF Store!Login, Kind
  <2>8. CASE users[Body(h).title] # NoPassword /\ users[Body(h).title] = Body(h).password
    <3>1. res = "match"
      BY <2>4, <2>8 DEF PasswordResult
    <3>2. QED
      BY <1>1, <1>3, <2>1, <2>3, <2>6, <2>8, <3>1 DEF Store!Login, Kind
  <2>9. CASE users[Body(h).title] # NoPassword /\ users[Body(h).title] # Body(h).password
    <3>1. res = "mismatch"
      BY <2>4, <2>9 DEF PasswordResult
    <3>2. QED
      BY <1>1, <1>3, <2>1, <2>3, <2>6, <2>9, <3>1 DEF Store!Login, Kind
  <2>10. QED
    BY <2>7, <2>8, <2>9
<1>7. QED
  BY <1>5, <1>6

(* The statement of a write is invisible: it takes effect at its commit.   *)
LEMMA HalfIsNothing ==
    ASSUME SrvTypeOK, SrvTypeOK', NEW h \in Handlers, NEW p \in {"started", "commit"}, MoveTo(h, p),
           phase[h] \in {"queued", "started"},
           UNCHANGED <<reqs, inbox, outbox, state, users, notkas>>
    PROVE  UNCHANGED Store!vars
<1>1. p \in Phases /\ StageOf(p) = StageOf(phase[h])
  BY DEF Phases, StageOf
<1>2. MappedAsked' = MappedAsked /\ MappedStage' = MappedStage
  BY <1>1, MappedStep
<1>3. QED
  BY <1>2 DEF Store!vars, MappedAsked, MappedStage, Posted

LEMMA RegisterIsRefused ==
    ASSUME StoreInv, SrvTypeOK', NEW h \in Handlers, Register(h)
    PROVE  UNCHANGED Store!vars \/ Store!Refuse(h)
<1>0. SrvTypeOK
  BY DEF StoreInv
<1>1. /\ phase[h] = "started" /\ Kind(h) = "login" /\ state[Client(h)] = "NO_SUCH_USER"
      /\ UNCHANGED <<reqs, inbox, users, notkas>>
      /\ h \in Nat
  BY <1>0, HandlerTypes DEF Register, Begin, Registers, register_user, dbVars, tables
<1>2. CASE MoveTo(h, "commit") /\ UNCHANGED <<state, outbox>>
  BY <1>0, <1>1, <1>2, HalfIsNothing
<1>3. CASE /\ state' = [state EXCEPT ![Client(h)] = "REGISTER_FAIL"]
           /\ Post(h, "login_ack", "REGISTER_FAIL")
           /\ MoveTo(h, "done")
  <2>1. "done" \in Phases /\ StageOf("done") = "done"
    BY DEF Phases, StageOf
  <2>2. /\ Store!Serve(h, "login", "done") /\ MappedAsked' = MappedAsked
        /\ Store!SessionState(h) = "NO_SUCH_USER"
        /\ Store!SetState(h, "REGISTER_FAIL")
    BY <1>0, <1>1, <1>3, <2>1, Served, MappedStep
  <2>3. [to |-> h, kind |-> "login_ack", value |-> "REGISTER_FAIL"] \in Replies
    BY <1>1, RepliesPosted DEF SessionStates
  <2>4. Store!Answer(h, "login_ack", "REGISTER_FAIL")
    BY <1>0, <1>1, <1>3, <2>3, PostIsAnswer
  <2>5. QED
    BY <1>1, <2>2, <2>4 DEF Store!Refuse, MappedAsked
<1>4. QED
  BY <1>2, <1>3 DEF Register

(* The commit of a handler, on the open connection.                        *)
LEMMA CommitWrites ==
    ASSUME StoreInv, NEW h \in Handlers, phase[h] = "commit", commit
    PROVE  /\ Kind(h) = "login" =>
                 /\ users' = [users EXCEPT ![Body(h).title] = Body(h).password]
                 /\ notkas' = notkas
                 /\ users[Body(h).title] = NoPassword /\ Body(h).title # EmptyTitle
           /\ Kind(h) = "save" =>
                 /\ notkas' = [notkas EXCEPT ![Body(h).title] = Body(h).text]
                 /\ users' = users
<1>1. SrvTypeOK /\ OneWriter /\ EmptyInv /\ WritesInv
  BY DEF StoreInv, UpInv, AnswerInv
<1>2. conn = "open" /\ txn = WriteOf(h) /\ txn # NoTxn
  BY <1>1, WriteIsOpen DEF OneWriter
<1>3. users' = Written(users, "users") /\ notkas' = Written(notkas, "notkas")
  BY <1>2 DEF commit
<1>4. ASSUME Kind(h) = "login"
      PROVE  /\ users' = [users EXCEPT ![Body(h).title] = Body(h).password]
             /\ notkas' = notkas
             /\ users[Body(h).title] = NoPassword /\ Body(h).title # EmptyTitle
  <2>1. txn.table = "users" /\ txn.key = Body(h).title /\ txn.value = Body(h).password
    BY <1>2, <1>4 DEF WriteOf
  <2>2. QED
    BY <1>1, <1>2, <1>3, <2>1 DEF Written, EmptyInv, WritesInv
<1>5. ASSUME Kind(h) = "save"
      PROVE  /\ notkas' = [notkas EXCEPT ![Body(h).title] = Body(h).text]
             /\ users' = users
  <2>1. txn.table = "notkas" /\ txn.key = Body(h).title /\ txn.value = Body(h).text
    BY <1>2, <1>5 DEF WriteOf
  <2>2. QED
    BY <1>3, <2>1 DEF Written
<1>6. QED
  BY <1>4, <1>5

LEMMA CommitIsRegister ==
    ASSUME StoreInv, SrvTypeOK', NEW h \in Handlers, RegisterCommit(h)
    PROVE  Store!Register(h)
<1>0. SrvTypeOK
  BY DEF StoreInv
<1>1. /\ phase[h] = "commit" /\ Kind(h) = "login" /\ commit /\ MoveTo(h, "done")
      /\ state' = [state EXCEPT ![Client(h)] = "REGISTERED"]
      /\ Post(h, "login_ack", "REGISTERED")
      /\ UNCHANGED <<reqs, inbox>> /\ h \in Nat
  BY <1>0, HandlerTypes DEF RegisterCommit, StateRegistered
<1>2. "done" \in Phases /\ StageOf("done") = "done"
  BY DEF Phases, StageOf
<1>3. /\ Store!Serve(h, "login", "done") /\ Store!SetState(h, "REGISTERED")
      /\ Store!Body(h) = Body(h) /\ Store!SessionState(h) = state[Client(h)]
  BY <1>0, <1>1, <1>2, Served
<1>4. state[Client(h)] = "NO_SUCH_USER"
  BY <1>1 DEF StoreInv, OfferInv
<1>5. [to |-> h, kind |-> "login_ack", value |-> "REGISTERED"] \in Replies
  BY <1>1, RepliesPosted DEF SessionStates
<1>6. Store!Answer(h, "login_ack", "REGISTERED")
  BY <1>0, <1>1, <1>5, PostIsAnswer
<1>7. /\ users' = [users EXCEPT ![Body(h).title] = Body(h).password]
      /\ notkas' = notkas
      /\ users[Body(h).title] = NoPassword /\ Body(h).title # EmptyTitle
  BY <1>1, CommitWrites
<1>8. QED
  BY <1>3, <1>4, <1>6, <1>7 DEF Store!Register

LEMMA CommitIsSave ==
    ASSUME StoreInv, SrvTypeOK', NEW h \in Handlers, SaveCommit(h)
    PROVE  Store!Save(h)
<1>0. SrvTypeOK
  BY DEF StoreInv
<1>1. /\ phase[h] = "commit" /\ Kind(h) = "save" /\ commit /\ MoveTo(h, "done")
      /\ Post(h, "save_ack", "Ok")
      /\ UNCHANGED <<reqs, inbox, state>> /\ h \in Nat
  BY <1>0, HandlerTypes DEF SaveCommit, ErrFor
<1>2. "done" \in Phases /\ StageOf("done") = "done"
  BY DEF Phases, StageOf
<1>3. Store!Serve(h, "save", "done") /\ Store!Body(h) = Body(h)
  BY <1>0, <1>1, <1>2, Served
<1>4. [to |-> h, kind |-> "save_ack", value |-> "Ok"] \in Replies
  BY <1>1, RepliesPosted
<1>5. Store!Answer(h, "save_ack", "Ok")
  BY <1>0, <1>1, <1>4, PostIsAnswer
<1>6. users' = users /\ notkas' = [notkas EXCEPT ![Body(h).title] = Body(h).text]
  BY <1>1, CommitWrites
<1>7. QED
  BY <1>1, <1>3, <1>5, <1>6 DEF Store!Save

LEMMA SaveIsRefused ==
    ASSUME StoreInv, SrvTypeOK', NEW h \in Handlers, Save(h)
    PROVE  UNCHANGED Store!vars \/ Store!Refuse(h)
<1>0. SrvTypeOK /\ DbUp
  BY DEF StoreInv, UpInv
<1>1. /\ phase[h] = "started" /\ Kind(h) = "save"
      /\ UNCHANGED <<reqs, inbox, state, users, notkas>>
      /\ h \in Nat
  BY <1>0, HandlerTypes DEF Save, Begin, save_notka, tables
<1>2. CASE MoveTo(h, "commit") /\ UNCHANGED outbox
  BY <1>0, <1>1, <1>2, HalfIsNothing
<1>3. CASE \E res \in {"true", "false"} :
              /\ save_notka(Body(h).title, Body(h).text, res)
              /\ Post(h, "save_ack", ErrFor(res))
              /\ MoveTo(h, "done")
  <2>1. Post(h, "save_ack", "Fail") /\ MoveTo(h, "done")
    BY <1>0, <1>3 DEF save_notka, Connected, DbUp, ErrFor
  <2>2. "done" \in Phases /\ StageOf("done") = "done"
    BY DEF Phases, StageOf
  <2>3. Store!Serve(h, "save", "done") /\ MappedAsked' = MappedAsked
    BY <1>0, <1>1, <2>1, <2>2, Served, MappedStep
  <2>4. [to |-> h, kind |-> "save_ack", value |-> "Fail"] \in Replies
    BY <1>1, RepliesPosted
  <2>5. Store!Answer(h, "save_ack", "Fail")
    BY <1>0, <1>1, <2>1, <2>4, PostIsAnswer
  <2>6. QED
    BY <1>1, <2>3, <2>5 DEF Store!Refuse, MappedAsked
<1>4. QED
  BY <1>2, <1>3 DEF Save

LEMMA FetchIsShow ==
    ASSUME StoreInv, SrvTypeOK', NEW h \in Handlers, FetchNotka(h)
    PROVE  Store!Show(h) \/ Store!Refuse(h)
<1>0. SrvTypeOK /\ DbUp
  BY DEF StoreInv, UpInv
<1>1. /\ phase[h] = "fetch" /\ MoveTo(h, "done")
      /\ UNCHANGED <<reqs, inbox, state, users, notkas>>
      /\ h \in Nat
  BY <1>0, HandlerTypes DEF FetchNotka, get_notka, tables
<1>2. PICK res \in Texts \cup {NoText} :
          /\ get_notka(Body(h).title, res)
          /\ IF res = NoText THEN UNCHANGED outbox ELSE Post(h, "notka", res)
  BY DEF FetchNotka
<1>3. /\ MappedAsked' = MappedAsked /\ MappedAsked[h].body = Body(h)
      /\ MappedStage[h] = "show"
      /\ MappedStage' = [MappedStage EXCEPT ![h] = "done"]
  <2>1. "done" \in Phases /\ StageOf("done") = "done" /\ StageOf("fetch") = "show"
    BY DEF Phases, StageOf
  <2>2. QED
    BY <1>0, <1>1, <2>1, MappedStep
<1>4. Store!Body(h) = Body(h)
  BY <1>3 DEF Store!Body, MappedAsked
<1>5. CASE res = NoText
  <2>1. Posted' = Posted
    BY <1>1, <1>2, <1>5 DEF Posted
  <2>2. QED
    BY <1>1, <1>3, <2>1 DEF Store!Refuse, MappedAsked, MappedStage
<1>6. CASE res # NoText
  <2>1. res = notkas[Body(h).title]
    BY <1>0, <1>2, <1>6 DEF get_notka, Connected, DbUp
  <2>2. [to |-> h, kind |-> "notka", value |-> res] \in Replies
    BY <1>1, <1>2, <1>6, RepliesPosted
  <2>3. Store!Answer(h, "notka", res)
    BY <1>0, <1>1, <1>2, <1>6, <2>2, PostIsAnswer
  <2>4. QED
    BY <1>1, <1>3, <1>4, <1>6, <2>1, <2>3 DEF Store!Show, MappedAsked, MappedStage
<1>7. QED
  BY <1>5, <1>6

LEMMA HandlerServes ==
    ASSUME StoreInv, SrvTypeOK', NEW h \in Handlers, HandlerStep(h)
    PROVE  Store!Next \/ UNCHANGED Store!vars
<1>0. SrvTypeOK
  BY DEF StoreInv
<1>1. h \in DOMAIN MappedAsked
  BY DEF MappedAsked
<1>2. ASSUME \/ Store!Trivial(h) \/ Store!Login(h) \/ Store!Register(h)
             \/ Store!Save(h) \/ Store!Show(h) \/ Store!Refuse(h)
      PROVE  Store!Next
  BY <1>1, <1>2 DEF Store!Next, MappedAsked
<1>3. CASE Start(h)
  <2>1. /\ MoveTo(h, "started") /\ phase[h] = "queued"
        /\ UNCHANGED <<reqs, inbox, outbox, state, users, notkas>>
    BY <1>3 DEF Start, MoveTo, dbVars, replyVars
  <2>2. QED
    BY <1>0, <2>1, HalfIsNothing
<1>4. QED
  BY <1>0, <1>2, <1>3, TrivialMessages, AuthenticateIsLogin, RegisterIsRefused, CommitIsRegister,
     CommitIsSave, SaveIsRefused, FetchIsShow DEF HandlerStep

(* While MySQL stays up the server implements NotkaStore: each step is one *)
(* of the store's, or invisible.                                           *)
THEOREM ServerImplementsStore == ASSUME MaxFaults = 0 PROVE Spec => StoreSpec
<1>1. Init => Store!Init
  <2> SUFFICES ASSUME Init PROVE Store!Init
    OBVIOUS
  <2>1. Handlers = {} /\ Posted = <<>>
    BY DEF Init, Handlers, Posted
  <2>2. MappedAsked = <<>> /\ MappedStage = <<>>
    BY <2>1 DEF MappedAsked, MappedStage
  <2>3. QED
    BY <2>1, <2>2 DEF Store!Init, Init, DbInit, MappedAsked, MappedStage
<1>2. StoreInv /\ SrvTypeOK' /\ [Next]_vars => [Store!Next]_(Store!vars)
  <2> SUFFICES ASSUME StoreInv, SrvTypeOK', [Next]_vars
               PROVE  Store!Next \/ UNCHANGED Store!vars
    OBVIOUS
  <2>0. SrvTypeOK /\ AnswerInv
    BY DEF StoreInv
  <2>1. ASSUME NEW h \in Handlers, HandlerStep(h)
        PROVE  Store!Next \/ UNCHANGED Store!vars
    BY <2>1, HandlerServes
  <2>2. ASSUME NEW c \in Clients, NEW body \in Bodies, Receive(c, body)
        PROVE  Store!Next
    BY <2>0, <2>2, ReceiveIsAsk DEF Store!Next
  <2>3. CASE MainStep \/ ReconnectClose \/ Fault \/ UNCHANGED vars
    <3>1. UNCHANGED <<reqs, phase, users, notkas>> /\ Posted' = Posted /\ UNCHANGED state
      BY <2>0, <2>3, MainFrame, OthersSayNothing
    <3>2. MappedAsked' = MappedAsked /\ MappedStage' = MappedStage
      BY <2>0, <3>1, Mapped
    <3>3. QED
      BY <3>1, <3>2 DEF Store!vars, MappedAsked, MappedStage
  <2>4. QED
    BY <2>1, <2>2, <2>3 DEF Next, Quiet
<1>3. Spec => []StoreInv
  BY TypeCorrect, AnswersInductive, UpInductive, OfferInductive, EmptyInductive, PTL DEF StoreInv
<1>4. QED
  BY <1>1, <1>2, <1>3, TypeCorrect, PTL DEF Spec, StoreSpec, Store!Spec
=============================================================================
