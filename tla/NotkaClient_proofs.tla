-------------------------- MODULE NotkaClient_proofs --------------------------
(***************************************************************************)
(* Proofs about the page and its server.  For any number of pages, titles, *)
(* passwords, links and submits: the types, that resends are bounded, that *)
(* what a page shows and saves is so, and that titles are created on       *)
(* request only, or for a user who did not wait for an answer.             *)
(***************************************************************************)
EXTENDS NotkaClient, FiniteSetTheorems, SequenceTheorems, TLAPS

(***************************************************************************)
(* What the states are made of.  ClientTypeOK says what the types promise; *)
(* the proofs need the shape of every record as well.                      *)
(***************************************************************************)
Forms == [login : Titles, pass : Passwords]
Logins == [kind : {"login"}, title : Titles, password : Passwords]
Contents == Texts \cup {DefaultText}
Verdicts == {"NO_SUCH_USER", "WRONG_PASSWORD", "LOGGED_IN", "REGISTERED", "REGISTER_FAIL"}

Screens == {"LOGIN", "LOGIN_PASS", "LOGIN_FAIL", "REGISTER", "REGISTERED", "undefined"}

Pages ==
    [ws : {"connecting", "open", "closed"}, root : {"router", "form", "gone"},
     loginState : Screens, form : Forms, box : Forms, link : Forms,
     autologin : BOOLEAN, login_ : Titles, password_ : Passwords,
     waiting : Seq(Logins), greeting : Titles, editor : BOOLEAN, notka : Contents,
     blurs : Nat]

Habits ==
    [submits : Nat, saves : Nat, blurs : Nat, edits : Nat,
     wishes : SUBSET [title : Titles, password : Passwords],
     hurry : Nat, hasty : BOOLEAN]

AnswerSet ==
    [to : Nat, kind : {"syn_ack", "save_ack"}, value : {"", "Ok", "Fail"}]
    \cup [to : Nat, kind : {"login_ack"}, value : Verdicts]
    \cup [to : Nat, kind : {"notka"}, value : Contents]

ServerTyped ==
    /\ asked \in Seq([client : Clients, body : Bodies])
    /\ stage \in Seq({"asked", "show", "done"}) /\ Len(stage) = Len(asked)
    /\ state \in [Clients -> Verdicts \cup {"INIT"}]
    /\ users \in [Titles -> Passwords \cup {NoPassword}]
    /\ notkas \in [Titles -> Contents \cup {NoText}]
    /\ answers \in Seq(AnswerSet)
    /\ \A i \in DOMAIN answers : answers[i].to \in DOMAIN asked

PagesTyped ==
    /\ page \in [Clients -> Pages]
    /\ user \in [Clients -> Habits]
    /\ next \in [Clients -> Nat]

-----------------------------------------------------------------------------
(* The server.                                                             *)

To(i) == asked[answers[i].to]

\* What an answer answers, and what it stands for.
AnswersFit ==
    \A i \in DOMAIN answers :
       /\ answers[i].kind \in {"login_ack", "notka"} => To(i).body.kind = "login"
       /\ answers[i].kind = "save_ack" => To(i).body.kind = "save"
       /\ answers[i].kind = "login_ack" /\ answers[i].value = "REGISTERED" =>
             users[To(i).body.title] = To(i).body.password

\* A text comes behind the acknowledgement of its login.
Opens(j, h) ==
    answers[j].to = h /\ answers[j].kind = "login_ack" /\ answers[j].value = "LOGGED_IN"

ShownAfterAck ==
    /\ \A h \in DOMAIN asked :
          stage[h] = "show" => /\ asked[h].body.kind = "login"
                               /\ \E j \in DOMAIN answers : Opens(j, h)
    /\ \A i \in DOMAIN answers :
          answers[i].kind = "notka" => \E j \in 1 .. i-1 : Opens(j, answers[i].to)

Acks(c) == AnswersTo(c, "login_ack")
Served(c) == {h \in LoginsAsked(c) : stage[h] # "asked"}
Refusals(c) == {i \in Acks(c) : answers[i].value = "NO_SUCH_USER"}

\* No login has two acknowledgements, and two NO_SUCH_USER of a session have
\* another one between them.
AcksCounted ==
    \A c \in Clients :
       /\ Cardinality(Acks(c)) <= Cardinality(Served(c))
       /\ 2 * Cardinality(Refusals(c))
             <= Cardinality(Acks(c)) + (IF state[c] = "NO_SUCH_USER" THEN 1 ELSE 0)

ServerInv == ServerTyped /\ AnswersFit /\ ShownAfterAck /\ AcksCounted

-----------------------------------------------------------------------------
(* The page.                                                               *)

\* The forms are gone once the editor is there, and whatever an editor does, or
\* is told, is done and told then.
FormsGone(c) ==
    /\ page[c].editor = (page[c].root = "gone")
    /\ page[c].blurs > 0 => page[c].root = "gone"
    /\ \A h \in DOMAIN asked :
          asked[h].client = c /\ asked[h].body.kind = "save" => page[c].root = "gone"
    /\ \A i \in AcksSeen(c) : answers[i].value = "LOGGED_IN" => page[c].root = "gone"

Bounds(c) ==
    /\ next[c] <= Len(answers)
    /\ page[c].blurs <= user[c].blurs
    /\ Len(page[c].waiting) <= user[c].submits
    /\ page[c].autologin => page[c].ws # "open"

\* Logins of a page: those that were sent, wait for the socket or for the page.
Sent(c) ==
    Cardinality(LoginsAsked(c)) + Len(page[c].waiting) + (IF page[c].autologin THEN 1 ELSE 0)

\* Logins its user, or its link, asked for.
Wanted(c) == user[c].submits + (IF page[c].link.login = EmptyTitle THEN 0 ELSE 1)

RefusalsSeen(c) == {i \in Refusals(c) : i <= next[c]}

\* The page resends for a NO_SUCH_USER it has seen only.
ResendsCounted(c) ==
    /\ Sent(c) <= Wanted(c) + Cardinality(RefusalsSeen(c))
    /\ Sent(c) <= 2 * Wanted(c)

PageInv ==
    /\ PagesTyped
    /\ \A c \in Clients : FormsGone(c) /\ Bounds(c) /\ ResendsCounted(c)

-----------------------------------------------------------------------------
(* A user who waits.                                                       *)

Current(c) == LoginBody(page[c].login_, page[c].password_)
Unserved(c) == LoginsAsked(c) \ Served(c)
Unseen(c) == {i \in Acks(c) : i > next[c]}

Idle(c) ==
    /\ ~page[c].autologin /\ page[c].waiting = <<>>
    /\ Unserved(c) = {} /\ Unseen(c) = {}

\* At most one login of a page is under way, and it is the one of login_ and
\* password_: as the link, put off, on its way to the server or back.
OneUnderWay(c) ==
    /\ page[c].autologin =>
          page[c].waiting = <<>> /\ LoginsAsked(c) = {} /\ page[c].loginState = "LOGIN"
    /\ page[c].waiting # <<>> =>
          page[c].waiting = <<Current(c)>> /\ Unserved(c) = {} /\ Unseen(c) = {}
    /\ \A h \in Unserved(c) :
          asked[h].body = Current(c) /\ Unserved(c) = {h} /\ Unseen(c) = {}
    /\ \A i \in Unseen(c) :
          To(i).body = Current(c) /\ Unseen(c) = {i} /\ answers[i].value = state[c]

Truthful(c) ==
    /\ page[c].root = "gone" => Idle(c) /\ WasOpened(c, page[c].greeting)
    /\ page[c].loginState = "REGISTERED" =>
          Idle(c) /\ users[page[c].login_] = page[c].password_

\* A login sent from the create form is one the user wished for.
Wished(c) ==
    ~Idle(c) /\ page[c].loginState = "REGISTER" =>
        \E w \in user[c].wishes : w.title = page[c].login_

\* What is so while the user is not hasty.
Patient(c) == OneUnderWay(c) /\ Truthful(c) /\ Wished(c)

\* However hasty the user is: an editor has one title, the one that was sent
\* last, and only a page that has opened some title has an editor.
Titled(c) ==
    /\ page[c].root = "gone" => /\ page[c].greeting = page[c].login_
                                /\ ~page[c].autologin
                                /\ \E t \in Titles : WasOpened(c, t)
    /\ \A h \in DOMAIN asked :
          asked[h].client = c /\ asked[h].body.kind = "save" =>
             asked[h].body.title = page[c].greeting

\* And the page shows what the last acknowledgement said: the server is ready to
\* register only while its page shows the create form, or has an answer to see.
Informed(c) ==
    /\ page[c].loginState = "REGISTERED" =>
          \E i \in AcksSeen(c) : answers[i].value = "REGISTERED"
    /\ \A i \in Unseen(c) :
          (\A j \in Unseen(c) : j <= i) => answers[i].value = state[c]
    /\ state[c] = "NO_SUCH_USER" /\ Unseen(c) = {} => page[c].loginState = "REGISTER"

Shown(c) == Titled(c) /\ Informed(c) /\ (user[c].hasty \/ Patient(c))

PatientInv == \A c \in Clients : Shown(c)
-----------------------------------------------------------------------------
(* Counting.                                                               *)

LEMMA Finite ==
    ASSUME NEW n \in Nat, NEW S, S \subseteq 1 .. n
    PROVE  IsFiniteSet(S)
<1>1. IsFiniteSet(1 .. n)
  BY FS_Interval
<1> QED
  BY <1>1, FS_Subset

LEMMA OneMore ==
    ASSUME NEW S, IsFiniteSet(S), NEW x, x \notin S, NEW T, T = S \cup {x}
    PROVE  /\ Cardinality(T) = Cardinality(S) + 1
           /\ Cardinality(S) \in Nat
  BY FS_AddElement, FS_CardinalityType

LEMMA AtMost ==
    ASSUME NEW T, IsFiniteSet(T), NEW S, S \subseteq T
    PROVE  /\ IsFiniteSet(S) /\ Cardinality(S) \in Nat /\ Cardinality(T) \in Nat
           /\ Cardinality(S) <= Cardinality(T)
           /\ Cardinality(S) = Cardinality(T) => S = T
  BY FS_Subset, FS_CardinalityType

LEMMA SetsAre ==
    ASSUME ServerTyped, NEW c
    PROVE  /\ LoginsAsked(c) \subseteq 1 .. Len(asked) /\ Len(asked) \in Nat
           /\ Acks(c) \subseteq 1 .. Len(answers) /\ Len(answers) \in Nat
           /\ Served(c) \subseteq LoginsAsked(c)
           /\ Refusals(c) \subseteq Acks(c) /\ RefusalsSeen(c) \subseteq Refusals(c)
           /\ AcksSeen(c) \subseteq Acks(c)
           /\ IsFiniteSet(LoginsAsked(c)) /\ IsFiniteSet(Acks(c)) /\ IsFiniteSet(Served(c))
           /\ IsFiniteSet(Refusals(c)) /\ IsFiniteSet(RefusalsSeen(c))
           /\ IsFiniteSet(AcksSeen(c))
<1>1. /\ LoginsAsked(c) \subseteq 1 .. Len(asked) /\ Len(asked) \in Nat
      /\ Acks(c) \subseteq 1 .. Len(answers) /\ Len(answers) \in Nat
  BY DEF ServerTyped, LoginsAsked, Acks, AnswersTo
<1>2. /\ Served(c) \subseteq LoginsAsked(c)
      /\ Refusals(c) \subseteq Acks(c) /\ RefusalsSeen(c) \subseteq Refusals(c)
      /\ AcksSeen(c) \subseteq Acks(c)
  BY DEF Served, Refusals, RefusalsSeen, AcksSeen, Acks
<1>3. IsFiniteSet(LoginsAsked(c)) /\ IsFiniteSet(Acks(c))
  BY <1>1, Finite
<1> QED
  BY <1>1, <1>2, <1>3, FS_Subset

-----------------------------------------------------------------------------
(* What can happen to the server: it is sent messages, it acknowledges a   *)
(* login, or it deals with a message in another way.                       *)

\* The page of c sends messages.
Extended(c) ==
    /\ Len(asked) <= Len(asked')
    /\ asked' \in Seq([client : Clients, body : Bodies])
    /\ stage' \in Seq({"asked", "show", "done"}) /\ Len(stage') = Len(asked')
    /\ \A h \in DOMAIN asked : asked'[h] = asked[h] /\ stage'[h] = stage[h]
    /\ \A h \in DOMAIN asked' \ DOMAIN asked :
          asked'[h].client = c /\ stage'[h] = "asked"
    /\ UNCHANGED <<state, users, notkas, answers>>

\* The last of them is body, and it is behind a handshake message at most.
Sends(c, body) ==
    /\ Extended(c)
    /\ Len(asked') > Len(asked)
    /\ asked'[Len(asked')].body = body
    /\ \A h \in DOMAIN asked' \ DOMAIN asked :
          h # Len(asked') => asked'[h].body.kind = "syn"

Acknowledges(h, v) ==
    LET c == asked[h].client
        title == asked[h].body.title
    IN /\ stage[h] = "asked" /\ asked[h].body.kind = "login"
       /\ asked' = asked
       /\ stage' = [stage EXCEPT ![h] = IF v = "LOGGED_IN" THEN "show" ELSE "done"]
       /\ v = "NO_SUCH_USER" => state[c] # "NO_SUCH_USER"
       /\ state' = [state EXCEPT ![c] = v]
       /\ answers' = Append(answers, [to |-> h, kind |-> "login_ack", value |-> v])
       /\ IF v = "REGISTERED"
          THEN /\ state[c] = "NO_SUCH_USER"
               /\ users[title] = NoPassword
               /\ users' = [users EXCEPT ![title] = asked[h].body.password]
          ELSE users' = users
       /\ notkas' = notkas

Answers(h, kind, value) ==
    /\ answers' = Append(answers, [to |-> h, kind |-> kind, value |-> value])
    /\ \/ kind = "syn_ack" /\ value = ""
       \/ kind = "save_ack" /\ value \in {"Ok", "Fail"} /\ asked[h].body.kind = "save"
       \/ kind = "notka" /\ value \in Contents /\ stage[h] = "show"

Settles(h) ==
    /\ stage[h] # "done"
    /\ stage' = [stage EXCEPT ![h] = "done"]
    /\ \/ answers' = answers
       \/ \E kind \in {"syn_ack", "save_ack", "notka"}, value \in Contents \cup {"", "Ok", "Fail"} :
             Answers(h, kind, value)
    /\ notkas' \in [Titles -> Contents \cup {NoText}]
    /\ UNCHANGED <<asked, state, users>>

LEMMA Typing ==
    ASSUME ServerTyped
    PROVE  /\ Len(asked) \in Nat /\ Len(answers) \in Nat
           /\ DOMAIN asked = 1 .. Len(asked) /\ DOMAIN stage = 1 .. Len(asked)
           /\ DOMAIN answers = 1 .. Len(answers)
           /\ \A h \in DOMAIN asked : /\ asked[h].client \in Clients
                                     /\ asked[h].body \in Bodies
                                     /\ asked[h].body.kind \in {"login", "save", "syn"}
                                     /\ stage[h] \in {"asked", "show", "done"}
           /\ \A h \in DOMAIN asked : asked[h].body.kind = "login" =>
                 asked[h].body.title \in Titles /\ asked[h].body.password \in Passwords
<1>1. /\ Len(asked) \in Nat /\ Len(answers) \in Nat
      /\ DOMAIN asked = 1 .. Len(asked) /\ DOMAIN stage = 1 .. Len(asked)
      /\ DOMAIN answers = 1 .. Len(answers)
  BY DEF ServerTyped
<1>2. ASSUME NEW h \in DOMAIN asked
      PROVE  asked[h] \in [client : Clients, body : Bodies]
             /\ stage[h] \in {"asked", "show", "done"}
  <2>1. asked \in Seq([client : Clients, body : Bodies]) /\ stage \in Seq({"asked", "show", "done"})
    BY DEF ServerTyped
  <2>2. h \in 1 .. Len(asked) /\ h \in 1 .. Len(stage)
    BY <1>1 DEF ServerTyped
  <2> QED
    BY <2>1, <2>2, ElementOfSeq
<1>3. ASSUME NEW h \in DOMAIN asked
      PROVE  /\ asked[h].body.kind \in {"login", "save", "syn"}
             /\ asked[h].body.kind = "login" =>
                 asked[h].body.title \in Titles /\ asked[h].body.password \in Passwords
  <2>1. asked[h].body \in Bodies
    BY <1>2
  <2> QED
    BY <2>1 DEF Bodies
<1> QED
  BY <1>1, <1>2, <1>3

LEMMA ServeForms ==
    ASSUME ServerTyped, ShownAfterAck, NEW h \in DOMAIN asked, Serve(h)
    PROVE  Settles(h) \/ \E v \in Verdicts : Acknowledges(h, v)
<1> DEFINE c == asked[h].client
           title == asked[h].body.title
           password == asked[h].body.password
<1>0. asked[h].body.kind \in {"login", "save", "syn"}
  BY Typing
<1> USE DEF Server!Serve, Server!SetState, Server!Answer, Server!Body, Server!SessionState
<1>1. CASE Server!Trivial(h)
  <2>1. Server!Serve(h, "syn", "done") /\ Server!Answer(h, "syn_ack", "")
    BY <1>0, <1>1 DEF Server!Trivial
  <2>2. Answers(h, "syn_ack", "")
    BY <2>1 DEF Answers
  <2> QED
    BY <1>1, <2>1, <2>2 DEF Server!Trivial, Settles, ServerTyped
<1>2. CASE Server!Login(h)
  <2>1. state[c] # "NO_SUCH_USER" /\ users' = users /\ notkas' = notkas
    BY <1>2 DEF Server!Login
  <2>2. CASE Server!Serve(h, "login", "done") /\ Server!SetState(h, "NO_SUCH_USER")
             /\ Server!Answer(h, "login_ack", "NO_SUCH_USER")
    <3>1. Acknowledges(h, "NO_SUCH_USER")
      BY <2>1, <2>2 DEF Acknowledges
    <3> QED
      BY <3>1 DEF Verdicts
  <2>3. CASE Server!Serve(h, "login", "show") /\ Server!SetState(h, "LOGGED_IN")
             /\ Server!Answer(h, "login_ack", "LOGGED_IN")
    <3>1. Acknowledges(h, "LOGGED_IN")
      BY <2>1, <2>3 DEF Acknowledges
    <3> QED
      BY <3>1 DEF Verdicts
  <2>4. CASE Server!Serve(h, "login", "done") /\ Server!SetState(h, "WRONG_PASSWORD")
             /\ Server!Answer(h, "login_ack", "WRONG_PASSWORD")
    <3>1. Acknowledges(h, "WRONG_PASSWORD")
      BY <2>1, <2>4 DEF Acknowledges
    <3> QED
      BY <3>1 DEF Verdicts
  <2> QED
    BY <1>2, <2>2, <2>3, <2>4 DEF Server!Login
<1>3. CASE Server!Register(h)
  <2>1. Acknowledges(h, "REGISTERED")
    BY <1>3 DEF Server!Register, Acknowledges
  <2> QED
    BY <2>1 DEF Verdicts
<1>4. CASE Server!Save(h)
  <2>1. Answers(h, "save_ack", "Ok")
    BY <1>4 DEF Server!Save, Answers
  <2>2. notkas' \in [Titles -> Contents \cup {NoText}]
    <3>1. asked[h].body \in Bodies /\ asked[h].body.kind = "save"
      BY <1>4, Typing DEF Server!Save
    <3>2. asked[h].body.text \in Contents
      BY <3>1 DEF Bodies, Contents
    <3> QED
      BY <1>4, <3>2 DEF Server!Save, ServerTyped
  <2> QED
    BY <1>4, <2>1, <2>2 DEF Server!Save, Settles
<1>5. CASE Server!Show(h)
  <2>1. title \in Titles
    BY <1>5, Typing DEF ShownAfterAck, Server!Show
  <2>2. notkas[title] \in Contents
    BY <1>5, <2>1 DEF Server!Show, ServerTyped
  <2>3. Answers(h, "notka", notkas[title])
    BY <1>5, <2>2 DEF Server!Show, Answers
  <2> QED
    BY <1>5, <2>2, <2>3 DEF Server!Show, Settles, ServerTyped
<1>6. CASE Server!Refuse(h)
  <2>1. asked' = asked /\ users' = users /\ notkas' = notkas
    BY <1>6 DEF Server!Refuse
  <2>2. CASE Server!Serve(h, "save", "done") /\ Server!Answer(h, "save_ack", "Fail")
             /\ state' = state
    <3>1. Answers(h, "save_ack", "Fail")
      BY <2>2 DEF Answers
    <3> QED
      BY <2>1, <2>2, <3>1 DEF Settles, ServerTyped
  <2>3. CASE Server!Serve(h, "login", "done") /\ state' = state /\ answers' = answers
    BY <2>1, <2>3 DEF Settles, ServerTyped
  <2>4. CASE Server!Serve(h, "login", "done") /\ Server!SetState(h, "REGISTER_FAIL")
             /\ Server!Answer(h, "login_ack", "REGISTER_FAIL")
    <3>1. Acknowledges(h, "REGISTER_FAIL")
      BY <2>1, <2>4 DEF Acknowledges
    <3> QED
      BY <3>1 DEF Verdicts
  <2>5. CASE /\ stage[h] = "show"
             /\ stage' = [stage EXCEPT ![h] = "done"]
             /\ state' = state /\ answers' = answers
    BY <2>1, <2>5 DEF Settles, ServerTyped
  <2> QED
    BY <1>6, <2>2, <2>3, <2>4, <2>5 DEF Server!Refuse
<1> QED
  BY <1>1, <1>2, <1>3, <1>4, <1>5, <1>6 DEF Serve
-----------------------------------------------------------------------------
(* What each of these does to the logins and the answers of a page.        *)

LEMMA Appended ==
    ASSUME NEW S, NEW s \in Seq(S), NEW x, NEW t, t = Append(s, x)
    PROVE  /\ Len(s) \in Nat /\ Len(t) = Len(s) + 1
           /\ DOMAIN t = DOMAIN s \cup {Len(s) + 1} /\ Len(s) + 1 \notin DOMAIN s
           /\ \A i \in DOMAIN s : t[i] = s[i]
           /\ t[Len(s) + 1] = x
  OBVIOUS

LEMMA SendsSets ==
    ASSUME ServerTyped, NEW c \in Clients, Extended(c), NEW d \in Clients
    PROVE  /\ Served(d)' = Served(d) /\ Acks(d)' = Acks(d) /\ Refusals(d)' = Refusals(d)
           /\ LoginsAsked(d) = LoginsAsked(d)' \cap DOMAIN asked
           /\ d # c => LoginsAsked(d)' = LoginsAsked(d)
           /\ DOMAIN asked \subseteq DOMAIN asked'
           /\ \A i \in DOMAIN answers : To(i)' = To(i)
<1>1. /\ DOMAIN asked \subseteq DOMAIN asked'
      /\ \A h \in DOMAIN asked : asked'[h] = asked[h] /\ stage'[h] = stage[h]
      /\ \A h \in DOMAIN asked' \ DOMAIN asked : asked'[h].client = c /\ stage'[h] = "asked"
      /\ answers' = answers
  BY Typing DEF Extended
<1>2. /\ LoginsAsked(d) = LoginsAsked(d)' \cap DOMAIN asked
      /\ d # c => LoginsAsked(d)' = LoginsAsked(d)
  BY <1>1 DEF LoginsAsked
<1>3. Served(d)' = Served(d)
  BY <1>1, <1>2 DEF Served, LoginsAsked
<1>4. \A i \in DOMAIN answers : To(i)' = To(i) /\ answers[i].to \in DOMAIN asked
  BY <1>1 DEF To, ServerTyped
<1>5. Acks(d)' = Acks(d)
  BY <1>1, <1>4 DEF Acks, AnswersTo, To
<1>6. Refusals(d)' = Refusals(d)
  BY <1>1, <1>5 DEF Refusals
<1> QED
  BY <1>1, <1>2, <1>3, <1>4, <1>5, <1>6

LEMMA SendsLogin ==
    ASSUME ServerTyped, NEW c \in Clients, NEW body, Sends(c, body)
    PROVE  /\ Len(asked') \in DOMAIN asked' \ DOMAIN asked
           /\ LoginsAsked(c)' = IF body.kind = "login"
                                THEN LoginsAsked(c) \cup {Len(asked')}
                                ELSE LoginsAsked(c)
<1>1. Len(asked') \in DOMAIN asked' \ DOMAIN asked
  BY Typing DEF Sends, Extended
<1>2. LoginsAsked(c) = LoginsAsked(c)' \cap DOMAIN asked
  BY SendsSets DEF Sends
<1>3. \A h \in DOMAIN asked' \ DOMAIN asked :
         /\ h # Len(asked') => h \notin LoginsAsked(c)'
         /\ h = Len(asked') => (h \in LoginsAsked(c)' <=> body.kind = "login")
  BY DEF Sends, Extended, LoginsAsked
<1>4. LoginsAsked(c)' \subseteq DOMAIN asked'
  BY DEF LoginsAsked
<1> QED
  BY <1>1, <1>2, <1>3, <1>4

\* Answer n is new, and it is v to login h.
Answered(n, h, v) ==
    /\ DOMAIN answers' = DOMAIN answers \cup {n} /\ n \notin DOMAIN answers
    /\ \A i \in DOMAIN answers : answers'[i] = answers[i] /\ To(i)' = To(i)
    /\ answers'[n].to = h /\ answers'[n].value = v /\ answers'[n].kind = "login_ack"
    /\ Len(answers') = n /\ Len(answers) \in Nat
    /\ asked' = asked

LEMMA AckAnswers ==
    ASSUME ServerTyped, NEW h \in DOMAIN asked, NEW v \in Verdicts, Acknowledges(h, v),
           NEW n \in Nat, n = Len(answers) + 1
    PROVE  Answered(n, h, v)
<1>1. asked' = asked
  BY DEF Acknowledges
<1>2. answers' = Append(answers, [to |-> h, kind |-> "login_ack", value |-> v])
  BY DEF Acknowledges
<1>3. answers \in Seq(AnswerSet)
  BY DEF ServerTyped
<1>4. /\ DOMAIN answers' = DOMAIN answers \cup {n} /\ n \notin DOMAIN answers
      /\ \A i \in DOMAIN answers : answers'[i] = answers[i]
      /\ answers'[n] = [to |-> h, kind |-> "login_ack", value |-> v]
      /\ Len(answers') = n /\ Len(answers) \in Nat
  BY <1>2, <1>3, Appended
<1>5. answers'[n].to = h /\ answers'[n].value = v /\ answers'[n].kind = "login_ack"
  BY <1>4
<1>6. \A i \in DOMAIN answers : answers'[i] = answers[i] /\ To(i)' = To(i)
  BY <1>1, <1>4 DEF To
<1> QED
  BY <1>1, <1>4, <1>5, <1>6 DEF Answered

LEMMA AckSets ==
    ASSUME ServerTyped, NEW h \in DOMAIN asked, NEW v \in Verdicts, Acknowledges(h, v),
           NEW n \in Nat, n = Len(answers) + 1, NEW d \in Clients
    PROVE  /\ LoginsAsked(d)' = LoginsAsked(d)
           /\ h \in LoginsAsked(asked[h].client)
           /\ h \notin Served(d) /\ n \notin Acks(d) /\ n \notin Refusals(d)
           /\ d # asked[h].client =>
                 Served(d)' = Served(d) /\ Acks(d)' = Acks(d) /\ Refusals(d)' = Refusals(d)
           /\ d = asked[h].client =>
                 /\ Served(d)' = Served(d) \cup {h}
                 /\ Acks(d)' = Acks(d) \cup {n}
                 /\ Refusals(d)' = IF v = "NO_SUCH_USER" THEN Refusals(d) \cup {n}
                                                         ELSE Refusals(d)
<1>1. /\ asked' = asked /\ stage[h] = "asked" /\ asked[h].body.kind = "login"
      /\ stage' = [stage EXCEPT ![h] = IF v = "LOGGED_IN" THEN "show" ELSE "done"]
  BY DEF Acknowledges
<1>4. /\ DOMAIN answers' = DOMAIN answers \cup {n} /\ n \notin DOMAIN answers
      /\ \A i \in DOMAIN answers : answers'[i] = answers[i]
      /\ answers'[n].to = h /\ answers'[n].value = v /\ answers'[n].kind = "login_ack"
  <2>1. Answered(n, h, v)
    BY AckAnswers
  <2> QED
    BY <2>1 DEF Answered
<1>6. LoginsAsked(d)' = LoginsAsked(d)
  BY <1>1 DEF LoginsAsked
<1>7. h \notin Served(d) /\ n \notin Acks(d) /\ n \notin Refusals(d)
  BY <1>1, <1>4 DEF Served, Acks, Refusals, AnswersTo
<1>8. \A g \in DOMAIN asked : stage'[g] # "asked" <=> (g = h \/ stage[g] # "asked")
  BY <1>1, Typing
<1>9. h \in LoginsAsked(asked[h].client) /\ (h \in LoginsAsked(d) => d = asked[h].client)
  BY <1>1 DEF LoginsAsked
<1>10. Served(d)' = IF d = asked[h].client THEN Served(d) \cup {h} ELSE Served(d)
  BY <1>6, <1>8, <1>9 DEF Served, LoginsAsked
<1>12. Acks(d)' = IF d = asked[h].client THEN Acks(d) \cup {n} ELSE Acks(d)
  BY <1>1, <1>4 DEF Acks, AnswersTo
<1>13. Refusals(d)' = IF d = asked[h].client /\ v = "NO_SUCH_USER"
                      THEN Refusals(d) \cup {n} ELSE Refusals(d)
  BY <1>4, <1>12 DEF Refusals, Acks, AnswersTo
<1> QED
  BY <1>6, <1>7, <1>9, <1>10, <1>12, <1>13

LEMMA SettleSets ==
    ASSUME ServerTyped, NEW h \in DOMAIN asked, Settles(h), NEW d \in Clients
    PROVE  /\ LoginsAsked(d)' = LoginsAsked(d)
           /\ Served(d) \subseteq Served(d)' /\ Served(d)' \subseteq LoginsAsked(d)
           /\ Acks(d)' = Acks(d) /\ Refusals(d)' = Refusals(d)
           /\ Len(answers) \in Nat /\ Len(answers) <= Len(answers')
           /\ \A i \in DOMAIN answers : i \in DOMAIN answers' /\ answers'[i] = answers[i] /\ To(i)' = To(i)
<1>1. asked' = asked /\ stage' = [stage EXCEPT ![h] = "done"]
  BY DEF Settles
<1>2. LoginsAsked(d)' = LoginsAsked(d)
  BY <1>1 DEF LoginsAsked
<1>3. Served(d) \subseteq Served(d)' /\ Served(d)' \subseteq LoginsAsked(d)
  BY <1>1, <1>2, Typing DEF Served, LoginsAsked
<1>4. Len(answers) \in Nat
  BY Typing
<1>5. /\ \A i \in DOMAIN answers : i \in DOMAIN answers' /\ answers'[i] = answers[i]
      /\ \A i \in DOMAIN answers' \ DOMAIN answers : answers'[i].kind # "login_ack"
      /\ Len(answers) <= Len(answers')
  <2>1. CASE answers' = answers
    BY <2>1, <1>4
  <2>2. ASSUME NEW kind \in {"syn_ack", "save_ack", "notka"}, NEW value, Answers(h, kind, value)
        PROVE  <1>5
    <3>1. answers' = Append(answers, [to |-> h, kind |-> kind, value |-> value])
      BY <2>2 DEF Answers
    <3>2. answers \in Seq(AnswerSet)
      BY DEF ServerTyped
    <3>3. /\ DOMAIN answers' = DOMAIN answers \cup {Len(answers) + 1}
          /\ \A i \in DOMAIN answers : answers'[i] = answers[i]
          /\ answers'[Len(answers) + 1] = [to |-> h, kind |-> kind, value |-> value]
          /\ Len(answers') = Len(answers) + 1
      BY <3>1, <3>2, Appended
    <3> QED
      BY <3>3, <1>4
  <2> QED
    BY <2>1, <2>2 DEF Settles
<1>6. \A i \in DOMAIN answers : To(i)' = To(i)
  BY <1>1, <1>5 DEF To
<1>7. Acks(d)' = Acks(d)
  BY <1>1, <1>5 DEF Acks, AnswersTo
<1>8. Refusals(d)' = Refusals(d)
  BY <1>5, <1>7 DEF Refusals, Acks, AnswersTo
<1> QED
  BY <1>2, <1>3, <1>4, <1>5, <1>6, <1>7, <1>8
-----------------------------------------------------------------------------
(* The server's invariant.                                                 *)

LEMMA SendsKeepServer ==
    ASSUME ServerInv, NEW c \in Clients, Extended(c)
    PROVE  ServerInv'
<1> USE DEF ServerInv
<1>1. /\ DOMAIN asked \subseteq DOMAIN asked'
      /\ \A i \in DOMAIN answers : To(i)' = To(i) /\ answers[i].to \in DOMAIN asked
  BY SendsSets DEF ServerTyped
<1>2. /\ \A h \in DOMAIN asked : asked'[h] = asked[h] /\ stage'[h] = stage[h]
      /\ \A h \in DOMAIN asked' \ DOMAIN asked : stage'[h] = "asked"
      /\ state' = state /\ users' = users /\ notkas' = notkas /\ answers' = answers
  BY DEF Extended
<1>3. ServerTyped'
  BY <1>1, <1>2 DEF ServerTyped, Extended
<1>4. AnswersFit'
  BY <1>1, <1>2 DEF AnswersFit
<1>5. ShownAfterAck'
  BY <1>1, <1>2 DEF ShownAfterAck, Opens
<1>6. AcksCounted'
  BY <1>2, SendsSets DEF AcksCounted
<1> QED
  BY <1>3, <1>4, <1>5, <1>6

LEMMA AckKeepsServer ==
    ASSUME ServerInv, NEW h \in DOMAIN asked, NEW v \in Verdicts, Acknowledges(h, v)
    PROVE  ServerInv'
<1> USE DEF ServerInv
<1> DEFINE c == asked[h].client
<1>n. PICK n \in Nat : n = Len(answers) + 1
  BY Typing
<1>0. /\ c \in Clients /\ asked[h].body.kind = "login" /\ h \in DOMAIN stage
      /\ asked[h].body.title \in Titles /\ asked[h].body.password \in Passwords
  BY Typing DEF Acknowledges
<1>1. /\ asked' = asked
      /\ DOMAIN answers' = DOMAIN answers \cup {n} /\ n \notin DOMAIN answers
      /\ \A i \in DOMAIN answers : answers'[i] = answers[i] /\ To(i)' = To(i)
      /\ answers'[n].to = h /\ answers'[n].value = v /\ answers'[n].kind = "login_ack"
  <2>1. Answered(n, h, v)
    BY <1>n, AckAnswers
  <2> QED
    BY <2>1 DEF Answered
<1>2. stage' = [stage EXCEPT ![h] = IF v = "LOGGED_IN" THEN "show" ELSE "done"]
  BY DEF Acknowledges
<1>3. state' = [state EXCEPT ![c] = v] /\ notkas' = notkas
  BY DEF Acknowledges
<1>4. ServerTyped'
  <2>1. stage' \in Seq({"asked", "show", "done"}) /\ Len(stage') = Len(asked')
    BY <1>0, <1>1, <1>2 DEF ServerTyped
  <2>2. answers' \in Seq(AnswerSet)
    <3>1. [to |-> h, kind |-> "login_ack", value |-> v] \in AnswerSet
      BY Typing DEF AnswerSet
    <3> QED
      BY <3>1 DEF ServerTyped, Acknowledges
  <2>3. users' \in [Titles -> Passwords \cup {NoPassword}]
    BY <1>0 DEF ServerTyped, Acknowledges
  <2>4. state' \in [Clients -> Verdicts \cup {"INIT"}]
    BY <1>3 DEF ServerTyped
  <2> QED
    BY <1>1, <1>3, <2>1, <2>2, <2>3, <2>4 DEF ServerTyped
<1>5. AnswersFit'
  <2>1. \A t \in Titles : users[t] # NoPassword => users'[t] = users[t]
    BY DEF ServerTyped, Acknowledges
  <2>2. v = "REGISTERED" => users'[asked[h].body.title] = asked[h].body.password
    BY <1>0 DEF ServerTyped, Acknowledges
  <2>3. ASSUME NEW i \in DOMAIN answers, answers[i].kind = "login_ack",
               answers[i].value = "REGISTERED"
        PROVE  users'[To(i).body.title] = To(i).body.password
    <3>1. To(i).body.title \in Titles /\ To(i).body.password \in Passwords
      BY <2>3, Typing DEF AnswersFit, ServerTyped, To
    <3>2. users[To(i).body.title] = To(i).body.password
      BY <2>3 DEF AnswersFit
    <3> QED
      BY <2>1, <3>1, <3>2, ClientAssumption
  <2>4. ASSUME NEW i \in DOMAIN answers
        PROVE  /\ answers[i].kind \in {"login_ack", "notka"} => To(i).body.kind = "login"
               /\ answers[i].kind = "save_ack" => To(i).body.kind = "save"
    BY DEF AnswersFit
  <2>5. To(n)' = asked[h]
    BY <1>1 DEF To
  <2> QED
    BY <1>0, <1>1, <2>2, <2>3, <2>4, <2>5 DEF AnswersFit
<1>6. ShownAfterAck'
  <2>1. \A j \in DOMAIN answers : j \in DOMAIN answers' /\ \A g : Opens(j, g) => Opens(j, g)'
    BY <1>1 DEF Opens
  <2>2. v = "LOGGED_IN" => Opens(n, h)'
    BY <1>1 DEF Opens
  <2>3. ASSUME NEW g \in DOMAIN asked, stage'[g] = "show"
        PROVE  asked[g].body.kind = "login" /\ \E j \in DOMAIN answers' : Opens(j, g)'
    <3>1. CASE g = h
      BY <1>0, <1>1, <1>2, <2>2, <2>3, <3>1
    <3>2. CASE g # h
      <4>1. stage[g] = "show"
        BY <1>0, <1>2, <2>3, <3>2, Typing
      <4>2. asked[g].body.kind = "login" /\ \E j \in DOMAIN answers : Opens(j, g)
        BY <4>1 DEF ShownAfterAck
      <4> QED
        BY <2>1, <4>2
    <3> QED
      BY <3>1, <3>2
  <2>4. ASSUME NEW i \in DOMAIN answers', answers'[i].kind = "notka"
        PROVE  (\E j \in 1 .. i-1 : Opens(j, answers[i].to))'
    <3>1. i \in DOMAIN answers /\ answers'[i] = answers[i]
      BY <1>1, <2>4
    <3>2. PICK j \in 1 .. i-1 : Opens(j, answers[i].to)
      BY <2>4, <3>1 DEF ShownAfterAck
    <3>3. j \in DOMAIN answers
      BY <3>1, <3>2, Typing
    <3> QED
      BY <2>1, <3>1, <3>2, <3>3
  <2> QED
    BY <1>1, <2>3, <2>4 DEF ShownAfterAck
<1>7. AcksCounted'
  <2> SUFFICES ASSUME NEW d \in Clients
               PROVE  /\ Cardinality(Acks(d))' <= Cardinality(Served(d))'
                      /\ 2 * Cardinality(Refusals(d))'
                           <= Cardinality(Acks(d))' + (IF state'[d] = "NO_SUCH_USER" THEN 1 ELSE 0)
    BY DEF AcksCounted
  <2>1. /\ Cardinality(Acks(d)) <= Cardinality(Served(d))
        /\ 2 * Cardinality(Refusals(d))
             <= Cardinality(Acks(d)) + (IF state[d] = "NO_SUCH_USER" THEN 1 ELSE 0)
    BY DEF AcksCounted
  <2>2. /\ IsFiniteSet(Acks(d)) /\ IsFiniteSet(Served(d)) /\ IsFiniteSet(Refusals(d))
        /\ Cardinality(Acks(d)) \in Nat /\ Cardinality(Served(d)) \in Nat
        /\ Cardinality(Refusals(d)) \in Nat
    BY SetsAre, FS_CardinalityType
  <2>3. CASE d # c
    <3>1. Acks(d)' = Acks(d) /\ Served(d)' = Served(d) /\ Refusals(d)' = Refusals(d)
      BY <1>n, <2>3, AckSets
    <3>2. state'[d] = state[d]
      BY <1>3, <2>3 DEF ServerTyped
    <3> QED
      BY <2>1, <3>1, <3>2
  <2>4. CASE d = c
    <3>1. /\ Cardinality(Acks(d)') = Cardinality(Acks(d)) + 1
          /\ Cardinality(Served(d)') = Cardinality(Served(d)) + 1
      BY <1>n, <2>2, <2>4, AckSets, OneMore
    <3>2. Cardinality(Refusals(d)') = IF v = "NO_SUCH_USER" THEN Cardinality(Refusals(d)) + 1
                                                            ELSE Cardinality(Refusals(d))
      BY <1>n, <2>2, <2>4, AckSets, OneMore
    <3>3. state'[d] = v /\ (v = "NO_SUCH_USER" => state[d] # "NO_SUCH_USER")
      BY <1>3, <2>4 DEF ServerTyped, Acknowledges
    <3> QED
      BY <2>1, <2>2, <3>1, <3>2, <3>3
  <2> QED
    BY <2>3, <2>4
<1> QED
  BY <1>4, <1>5, <1>6, <1>7

LEMMA NewAnswer ==
    ASSUME ServerTyped, NEW h, NEW kind, NEW value, Answers(h, kind, value),
           NEW i \in DOMAIN answers' \ DOMAIN answers
    PROVE  /\ i = Len(answers) + 1 /\ \A j \in DOMAIN answers : j \in 1 .. i-1
           /\ answers'[i].to = h /\ answers'[i].kind = kind /\ answers'[i].value = value
<1> DEFINE x == [to |-> h, kind |-> kind, value |-> value]
<1>1. x.to = h /\ x.kind = kind /\ x.value = value
  OBVIOUS
<1>2. answers \in Seq(AnswerSet) /\ answers' = Append(answers, x)
  BY DEF ServerTyped, Answers
<1> HIDE DEF x
<1>3. /\ DOMAIN answers' = DOMAIN answers \cup {Len(answers) + 1}
      /\ answers'[Len(answers) + 1] = x
  BY <1>2, Appended
<1>4. i = Len(answers) + 1
  BY <1>3
<1> QED
  BY <1>1, <1>3, <1>4, Typing

LEMMA SettlesKeepsServer ==
    ASSUME ServerInv, NEW h \in DOMAIN asked, Settles(h)
    PROVE  ServerInv'
<1> USE DEF ServerInv
<1>1. /\ asked' = asked /\ state' = state /\ users' = users
      /\ stage' = [stage EXCEPT ![h] = "done"]
      /\ notkas' \in [Titles -> Contents \cup {NoText}]
  BY DEF Settles
<1>2. \A i \in DOMAIN answers : i \in DOMAIN answers' /\ answers'[i] = answers[i]
  BY SettleSets, Typing DEF Settles
<1>3. ASSUME NEW i \in DOMAIN answers' \ DOMAIN answers
      PROVE  \E kind \in {"syn_ack", "save_ack", "notka"}, value \in Contents \cup {"", "Ok", "Fail"} :
                /\ Answers(h, kind, value) /\ i = Len(answers) + 1
                /\ answers'[i].to = h /\ answers'[i].kind = kind /\ answers'[i].value = value
  <2>1. PICK kind \in {"syn_ack", "save_ack", "notka"}, value \in Contents \cup {"", "Ok", "Fail"} :
          Answers(h, kind, value)
    BY <1>3 DEF Settles
  <2>2. /\ i = Len(answers) + 1
        /\ answers'[i].to = h /\ answers'[i].kind = kind /\ answers'[i].value = value
    BY <2>1, <1>3, NewAnswer
  <2> QED
    BY <2>1, <2>2
<1>4. ServerTyped'
  <2>1. stage' \in Seq({"asked", "show", "done"}) /\ Len(stage') = Len(asked')
    BY <1>1 DEF ServerTyped
  <2>2. answers' \in Seq(AnswerSet) /\ \A i \in DOMAIN answers' : answers'[i].to \in DOMAIN asked'
    <3>1. CASE answers' = answers
      BY <1>1, <3>1 DEF ServerTyped
    <3>2. ASSUME NEW kind \in {"syn_ack", "save_ack", "notka"}, NEW value, Answers(h, kind, value)
          PROVE  <2>2
      <4>1. [to |-> h, kind |-> kind, value |-> value] \in AnswerSet
        <5>1. h \in Nat
          BY Typing
        <5>2. \/ kind \in {"syn_ack", "save_ack"} /\ value \in {"", "Ok", "Fail"}
              \/ kind = "notka" /\ value \in Contents
          BY <3>2 DEF Answers
        <5> QED
          BY <5>1, <5>2 DEF AnswerSet
      <4>2. answers' = Append(answers, [to |-> h, kind |-> kind, value |-> value])
        BY <3>2 DEF Answers
      <4>3. answers \in Seq(AnswerSet) /\ \A i \in DOMAIN answers : answers[i].to \in DOMAIN asked
        BY DEF ServerTyped
      <4>4. /\ DOMAIN answers' = DOMAIN answers \cup {Len(answers) + 1}
            /\ answers'[Len(answers) + 1].to = h
        BY <4>2, <4>3, Appended
      <4>5. answers' \in Seq(AnswerSet)
        BY <4>1, <4>2, <4>3
      <4> QED
        BY <1>1, <1>2, <4>3, <4>4, <4>5
    <3> QED
      BY <3>1, <3>2 DEF Settles
  <2> QED
    BY <1>1, <2>1, <2>2 DEF ServerTyped
<1>5. \A i \in DOMAIN answers : To(i)' = To(i)
  BY <1>1, <1>2 DEF To
<1>6. AnswersFit'
  <2>1. ASSUME NEW i \in DOMAIN answers' \ DOMAIN answers
        PROVE  /\ answers'[i].kind # "login_ack"
               /\ answers'[i].kind = "notka" => To(i)'.body.kind = "login"
               /\ answers'[i].kind = "save_ack" => To(i)'.body.kind = "save"
    <3>1. PICK kind \in {"syn_ack", "save_ack", "notka"}, value \in Contents \cup {"", "Ok", "Fail"} :
                /\ Answers(h, kind, value)
                /\ answers'[i].to = h /\ answers'[i].kind = kind /\ answers'[i].value = value
      BY <1>3
    <3>2. To(i)' = asked[h] /\ answers'[i].kind = kind
      BY <1>1, <3>1 DEF To
    <3> QED
      BY <3>1, <3>2 DEF Answers, ShownAfterAck
  <2>2. ASSUME NEW i \in DOMAIN answers
        PROVE  /\ answers'[i].kind \in {"login_ack", "notka"} => To(i)'.body.kind = "login"
               /\ answers'[i].kind = "save_ack" => To(i)'.body.kind = "save"
               /\ answers'[i].kind = "login_ack" /\ answers'[i].value = "REGISTERED" =>
                     users'[To(i)'.body.title] = To(i)'.body.password
    BY <1>1, <1>2, <1>5 DEF AnswersFit
  <2> QED
    BY <2>1, <2>2 DEF AnswersFit
<1>7. ShownAfterAck'
  <2>1. \A j \in DOMAIN answers : j \in DOMAIN answers' /\ \A g : Opens(j, g) => Opens(j, g)'
    BY <1>2 DEF Opens
  <2>2. ASSUME NEW g \in DOMAIN asked, stage'[g] = "show"
        PROVE  asked[g].body.kind = "login" /\ \E j \in DOMAIN answers' : Opens(j, g)'
    <3>1. stage[g] = "show"
      BY <1>1, <2>2, Typing
    <3>2. asked[g].body.kind = "login" /\ \E j \in DOMAIN answers : Opens(j, g)
      BY <3>1 DEF ShownAfterAck
    <3> QED
      BY <2>1, <3>2
  <2>3. ASSUME NEW i \in DOMAIN answers', answers'[i].kind = "notka"
        PROVE  (\E j \in 1 .. i-1 : Opens(j, answers[i].to))'
    <3>1. CASE i \in DOMAIN answers
      <4>1. PICK j \in 1 .. i-1 : Opens(j, answers[i].to)
        BY <1>2, <2>3, <3>1 DEF ShownAfterAck
      <4>2. j \in DOMAIN answers
        BY <3>1, <4>1, Typing
      <4> QED
        BY <1>2, <2>1, <3>1, <4>1, <4>2
    <3>2. CASE i \notin DOMAIN answers
      <4>1. PICK kind \in {"syn_ack", "save_ack", "notka"}, value \in Contents \cup {"", "Ok", "Fail"} :
                /\ Answers(h, kind, value) /\ i = Len(answers) + 1
                /\ answers'[i].to = h /\ answers'[i].kind = kind /\ answers'[i].value = value
        BY <1>3, <3>2
      <4>2. stage[h] = "show" /\ answers'[i].to = h
        BY <2>3, <4>1 DEF Answers
      <4>3. PICK j \in DOMAIN answers : Opens(j, h)
        BY <4>2 DEF ShownAfterAck
      <4>4. j \in 1 .. i-1
        <5>1. i \in DOMAIN answers' \ DOMAIN answers
          BY <3>2
        <5> QED
          BY <4>1, <4>3, <5>1, NewAnswer
      <4> QED
        BY <2>1, <4>2, <4>3, <4>4
    <3> QED
      BY <3>1, <3>2
  <2> QED
    BY <1>1, <2>2, <2>3 DEF ShownAfterAck
<1>8. AcksCounted'
  <2> SUFFICES ASSUME NEW d \in Clients
               PROVE  /\ Cardinality(Acks(d))' <= Cardinality(Served(d))'
                      /\ 2 * Cardinality(Refusals(d))'
                           <= Cardinality(Acks(d))' + (IF state'[d] = "NO_SUCH_USER" THEN 1 ELSE 0)
    BY DEF AcksCounted
  <2>1. Acks(d)' = Acks(d) /\ Refusals(d)' = Refusals(d) /\ state'[d] = state[d]
    BY <1>1, SettleSets
  <2>2. Cardinality(Served(d)) <= Cardinality(Served(d)')
    <3>1. IsFiniteSet(Served(d)')
      BY SetsAre, SettleSets, FS_Subset
    <3> QED
      BY <3>1, SettleSets, AtMost
  <2>3. /\ Cardinality(Served(d)') \in Nat /\ Cardinality(Served(d)) \in Nat
        /\ Cardinality(Acks(d)) \in Nat
    <3>1. IsFiniteSet(Served(d)')
      BY SetsAre, SettleSets, FS_Subset
    <3> QED
      BY <3>1, SetsAre, FS_CardinalityType
  <2>4. /\ Cardinality(Acks(d)) <= Cardinality(Served(d))
        /\ 2 * Cardinality(Refusals(d))
             <= Cardinality(Acks(d)) + (IF state[d] = "NO_SUCH_USER" THEN 1 ELSE 0)
    BY DEF AcksCounted
  <2> QED
    BY <2>1, <2>2, <2>3, <2>4
<1> QED
  BY <1>4, <1>6, <1>7, <1>8
-----------------------------------------------------------------------------
(* What the steps of a page do to it.                                      *)

Only(c) ==
    \A d \in Clients : d # c => /\ page'[d] = page[d] /\ user'[d] = user[d]
                                /\ next'[d] = next[d]

\* What the logins of a page are about, and what its editor is: as on page q.
Like(p, q) ==
    /\ p.login_ = q.login_ /\ p.password_ = q.password_ /\ p.waiting = q.waiting
    /\ p.autologin = q.autologin /\ p.link = q.link /\ p.greeting = q.greeting

\* A key or a click in the forms or in the editor, or the end of the socket.
Moved(c, p, u) ==
    /\ Like(p, page[c])
    /\ p.editor = page[c].editor
    /\ p.root = page[c].root \/ (page[c].root = "router" /\ p.root = "form")
    /\ p.ws = page[c].ws \/ p.ws = "closed"
    /\ u.submits = user[c].submits /\ u.wishes = user[c].wishes
    /\ user[c].hasty => u.hasty
    /\ \/ p.blurs = page[c].blurs /\ u.blurs = user[c].blurs
       \/ /\ page[c].editor
          /\ p.blurs = page[c].blurs + 1 /\ u.blurs = user[c].blurs + 1
    /\ \/ p.loginState = page[c].loginState
       \/ p.loginState = "REGISTER" /\ (u.hasty \/ ~AnswerDue(c))
       \/ p.loginState = "LOGIN" /\ page[c].loginState # "REGISTER"

\* A step at the forms: the user u may be hasty after it.
Hurried(c, hasty, u) ==
    /\ u \in Habits
    /\ u.submits = user[c].submits /\ u.wishes = user[c].wishes /\ u.blurs = user[c].blurs
    /\ u.hasty = hasty

Moves(c) ==
    /\ asked' = asked /\ stage' = stage /\ state' = state
    /\ users' = users /\ notkas' = notkas /\ answers' = answers
    /\ next' = next
    /\ Only(c)
    /\ Moved(c, page'[c], user'[c])

LEMMA PageIs ==
    ASSUME PagesTyped, NEW c \in Clients
    PROVE  page[c] \in Pages /\ user[c] \in Habits /\ next[c] \in Nat
  BY DEF PagesTyped

LEMMA Blanks == Blank \in Forms
  BY ClientAssumption DEF Blank, Forms

LEMMA RenderedIs ==
    ASSUME NEW p \in Pages, NEW s \in Screens, NEW login \in Titles,
           NEW q, q = Rendered(p, s, login)
    PROVE  /\ q \in Pages
           /\ q.loginState = s
           /\ q.root = IF p.root = "router" THEN "form" ELSE p.root
           /\ q.login_ = p.login_ /\ q.password_ = p.password_ /\ q.waiting = p.waiting
           /\ q.autologin = p.autologin /\ q.link = p.link /\ q.greeting = p.greeting
           /\ q.editor = p.editor /\ q.ws = p.ws /\ q.blurs = p.blurs
<1>1. CASE p.root = "router"
  <2>1. q = [p EXCEPT !.loginState = s, !.root = "form", !.box = Blank,
                      !.form = [Blank EXCEPT !.login = login]]
    BY <1>1 DEF Rendered
  <2>2. [Blank EXCEPT !.login = login] \in Forms
    BY Blanks DEF Forms
  <2> QED
    BY <1>1, <2>1, <2>2, Blanks DEF Pages
<1>2. CASE p.root = "form"
  <2>1. q = [p EXCEPT !.loginState = s,
                      !.box = IF s = p.loginState THEN p.box ELSE Blank]
    BY <1>2 DEF Rendered
  <2> QED
    BY <1>2, <2>1, Blanks DEF Pages
<1>3. CASE p.root = "gone"
  <2>1. q = [p EXCEPT !.loginState = s]
    BY <1>3 DEF Rendered
  <2> QED
    BY <1>3, <2>1 DEF Pages
<1> QED
  BY <1>1, <1>2, <1>3 DEF Pages

LEMMA BecomeIs ==
    ASSUME PagesTyped, NEW c \in Clients, NEW p \in Pages, Become(c, p)
    PROVE  /\ page' \in [Clients -> Pages] /\ page'[c] = p
           /\ \A d \in Clients : d # c => page'[d] = page[d]
  BY DEF PagesTyped, Become

LEMMA Moving ==
    ASSUME PagesTyped, NEW c \in Clients, NEW p \in Pages, NEW u \in Habits,
           Become(c, p), user' = [user EXCEPT ![c] = u], UNCHANGED <<serverVars, next>>,
           Moved(c, p, u)
    PROVE  Moves(c) /\ PagesTyped'
<1>1. /\ page' \in [Clients -> Pages] /\ page'[c] = p
      /\ \A d \in Clients : d # c => page'[d] = page[d]
  BY BecomeIs
<1>2. /\ user' \in [Clients -> Habits] /\ user'[c] = u
      /\ \A d \in Clients : d # c => user'[d] = user[d]
  BY DEF PagesTyped
<1>3. /\ asked' = asked /\ stage' = stage /\ state' = state
      /\ users' = users /\ notkas' = notkas /\ answers' = answers
      /\ next' = next
  BY DEF serverVars
<1>4. Only(c)
  BY <1>1, <1>2, <1>3 DEF Only
<1>5. PagesTyped'
  BY <1>1, <1>2, <1>3 DEF PagesTyped
<1> QED
  BY <1>1, <1>2, <1>3, <1>4, <1>5 DEF Moves

LEMMA HurryIs ==
    ASSUME PagesTyped, NEW c \in Clients
    PROVE  Hurry(c) \in Nat
<1>1. user[c].hurry \in Nat
  BY PageIs DEF Habits
<1> QED
  BY <1>1 DEF Hurry

LEMMA Hurrying ==
    ASSUME PagesTyped, NEW c \in Clients, NEW u,
           u = [user[c] EXCEPT !.hurry = Hurry(c)]
    PROVE  Hurried(c, user[c].hasty, u)
<1>1. PICK n \in Nat : n = Hurry(c)
  BY HurryIs
<1>2. u = [user[c] EXCEPT !.hurry = n]
  BY <1>1
<1> QED
  BY <1>2, PageIs DEF Hurried, Habits

LEMMA UserMoves ==
    ASSUME PagesTyped, NEW c \in Clients,
           \/ \E t \in Titles : handleChange(c, "login", t)
           \/ \E w \in Passwords : handleChange(c, "pass", w)
           \/ handleRegisterClick(c) \/ handleLoginNowClick(c)
           \/ \E x \in Texts : Edit(c, x)
           \/ handleBlur(c)
           \/ OnClose(c)
    PROVE  Moves(c) /\ PagesTyped'
<1>0. page[c] \in Pages /\ user[c] \in Habits
  BY PageIs
<1>u. user' = user => user' = [user EXCEPT ![c] = user[c]]
  BY DEF PagesTyped
<1>1. ASSUME NEW t \in Titles, handleChange(c, "login", t)
      PROVE  Moves(c) /\ PagesTyped'
  <2> DEFINE p == [page[c] EXCEPT !.box.login = t, !.form.login = t]
             u == [user[c] EXCEPT !.hurry = Hurry(c)]
  <2>0. Hurried(c, user[c].hasty, u)
    BY Hurrying
  <2>2. Become(c, p) /\ user' = [user EXCEPT ![c] = u]
    BY <1>1 DEF handleChange, Become
  <2> HIDE DEF u
  <2>1. p \in Pages /\ Moved(c, p, u)
    BY <1>0, <2>0 DEF Pages, Forms, Moved, Like, Hurried
  <2> HIDE DEF p
  <2> QED
    BY <1>1, <2>0, <2>1, <2>2, Moving DEF handleChange, Hurried
<1>2. ASSUME NEW w \in Passwords, handleChange(c, "pass", w)
      PROVE  Moves(c) /\ PagesTyped'
  <2> DEFINE p == [page[c] EXCEPT !.box.pass = w, !.form.pass = w]
             u == [user[c] EXCEPT !.hurry = Hurry(c)]
  <2>0. Hurried(c, user[c].hasty, u)
    BY Hurrying
  <2>2. Become(c, p) /\ user' = [user EXCEPT ![c] = u]
    BY <1>2 DEF handleChange, Become
  <2> HIDE DEF u
  <2>1. p \in Pages /\ Moved(c, p, u)
    BY <1>0, <2>0 DEF Pages, Forms, Moved, Like, Hurried
  <2> HIDE DEF p
  <2> QED
    BY <1>2, <2>0, <2>1, <2>2, Moving DEF handleChange, Hurried
<1>3. CASE handleRegisterClick(c)
  <2> DEFINE p == Rendered(page[c], "REGISTER", EmptyTitle)
  <2>1. "REGISTER" \in Screens /\ EmptyTitle \in Titles
    BY ClientAssumption DEF Screens
  <2>2. PICK hasty \in BOOLEAN : hasty = (user[c].hasty \/ AnswerDue(c))
    OBVIOUS
  <2> DEFINE u == [user[c] EXCEPT !.hurry = Hurry(c), !.hasty = hasty]
  <2>3. Hurried(c, hasty, u)
    <3>1. PICK n \in Nat : n = Hurry(c)
      BY HurryIs
    <3> QED
      BY <1>0, <3>1 DEF Hurried, Habits
  <2>4. Become(c, p) /\ user' = [user EXCEPT ![c] = u]
    BY <1>3, <2>2 DEF handleRegisterClick
  <2> HIDE DEF p, u
  <2>5. /\ p \in Pages /\ Like(p, page[c]) /\ p.loginState = "REGISTER"
        /\ p.editor = page[c].editor /\ p.ws = page[c].ws /\ p.blurs = page[c].blurs
        /\ p.root = page[c].root \/ (page[c].root = "router" /\ p.root = "form")
    BY <1>0, <2>1, RenderedIs DEF p, Like
  <2>6. /\ user[c].hasty => u.hasty
        /\ u.hasty \/ ~AnswerDue(c)
    BY <2>2, <2>3 DEF Hurried
  <2>7. Moved(c, p, u)
    BY <2>3, <2>5, <2>6 DEF Moved, Hurried
  <2> QED
    BY <1>3, <2>3, <2>4, <2>5, <2>7, Moving DEF handleRegisterClick, Hurried
<1>4. CASE handleLoginNowClick(c)
  <2> DEFINE p == [page[c] EXCEPT !.loginState = "LOGIN", !.form = Blank, !.box = Blank]
             u == [user[c] EXCEPT !.hurry = Hurry(c)]
  <2>0. Hurried(c, user[c].hasty, u)
    BY Hurrying
  <2>1. page[c].loginState # "REGISTER"
    BY <1>4 DEF handleLoginNowClick, Controls
  <2>3. Become(c, p) /\ user' = [user EXCEPT ![c] = u]
    BY <1>4 DEF handleLoginNowClick, Become
  <2> HIDE DEF u
  <2>2. p \in Pages /\ Moved(c, p, u)
    BY <1>0, <2>0, <2>1, Blanks DEF Pages, Screens, Moved, Like, Hurried
  <2> HIDE DEF p
  <2> QED
    BY <1>4, <2>0, <2>2, <2>3, Moving DEF handleLoginNowClick, Hurried
<1>5. ASSUME NEW x \in Texts, Edit(c, x)
      PROVE  Moves(c) /\ PagesTyped'
  <2> DEFINE p == [page[c] EXCEPT !.notka = x]
             u == [user[c] EXCEPT !.edits = @ + 1]
  <2>0. /\ u \in Habits /\ u.submits = user[c].submits /\ u.wishes = user[c].wishes
        /\ u.blurs = user[c].blurs /\ u.hasty = user[c].hasty
    BY <1>0 DEF Habits
  <2>2. Become(c, p) /\ user' = [user EXCEPT ![c] = u]
    BY <1>5 DEF Edit, Become
  <2> HIDE DEF u
  <2>1. p \in Pages /\ Moved(c, p, u)
    BY <1>0, <2>0 DEF Pages, Contents, Moved, Like
  <2> HIDE DEF p
  <2> QED
    BY <1>5, <2>0, <2>1, <2>2, Moving DEF Edit
<1>6. CASE handleBlur(c)
  <2> DEFINE p == [page[c] EXCEPT !.blurs = @ + 1]
             u == [user[c] EXCEPT !.blurs = @ + 1]
  <2>1. page[c].editor
    BY <1>6 DEF handleBlur, InEditor
  <2>0. /\ u \in Habits /\ u.submits = user[c].submits /\ u.wishes = user[c].wishes
        /\ u.blurs = user[c].blurs + 1 /\ u.hasty = user[c].hasty
    BY <1>0 DEF Habits
  <2>3. Become(c, p) /\ user' = [user EXCEPT ![c] = u]
    BY <1>6 DEF handleBlur, Become
  <2> HIDE DEF u
  <2>2. /\ p \in Pages /\ Like(p, page[c]) /\ p.blurs = page[c].blurs + 1
        /\ p.editor = page[c].editor /\ p.root = page[c].root /\ p.ws = page[c].ws
        /\ p.loginState = page[c].loginState
    <3>1. page[c].blurs + 1 \in Nat
      BY <1>0 DEF Pages
    <3> QED
      BY <1>0, <3>1 DEF Pages, Like
  <2>4. Moved(c, p, u)
    BY <2>0, <2>1, <2>2 DEF Moved
  <2> HIDE DEF p
  <2> QED
    BY <1>6, <2>0, <2>2, <2>3, <2>4, Moving DEF handleBlur
<1>7. CASE OnClose(c)
  <2> DEFINE p == [page[c] EXCEPT !.ws = "closed"]
  <2>1. p \in Pages /\ Moved(c, p, user[c])
    BY <1>0 DEF Pages, Moved, Like
  <2>2. Become(c, p)
    BY <1>7 DEF OnClose, Become
  <2> HIDE DEF p
  <2> QED
    BY <1>0, <1>u, <1>7, <2>1, <2>2, Moving DEF OnClose
<1> QED
  BY <1>1, <1>2, <1>3, <1>4, <1>5, <1>6, <1>7
-----------------------------------------------------------------------------
(* What a page sends.                                                      *)

Still ==
    /\ asked' = asked /\ stage' = stage /\ state' = state
    /\ users' = users /\ notkas' = notkas /\ answers' = answers

Join(s, t) == s \o t

Continues(S, r, s, t) ==
    /\ r \in Seq(S) /\ Len(r) = Len(s) + Len(t)
    /\ \A i \in 1 .. Len(s) : r[i] = s[i]
    /\ \A i \in 1 .. Len(t) : r[Len(s) + i] = t[i]

LEMMA Joined ==
    ASSUME NEW S, NEW s \in Seq(S), NEW t \in Seq(S), NEW r, r = Join(s, t)
    PROVE  Continues(S, r, s, t)
  BY DEF Join, Continues

LEMMA TransmitOne ==
    ASSUME ServerTyped, NEW c \in Clients, NEW body \in Bodies, Transmit(c, <<body>>)
    PROVE  Sends(c, body)
<1> DEFINE Messages == [client : Clients, body : Bodies]
           Stages == {"asked", "show", "done"}
           message == [client |-> c, body |-> body]
           messages == [i \in DOMAIN <<body>> |-> [client |-> c, body |-> <<body>>[i]]]
           stages == [i \in DOMAIN <<body>> |-> "asked"]
<1>1. /\ messages \in Seq(Messages) /\ Len(messages) = 1
      /\ messages[1] = message
  OBVIOUS
<1>2. stages \in Seq(Stages) /\ Len(stages) = 1 /\ stages[1] = "asked"
  OBVIOUS
<1>3. /\ asked' = Join(asked, messages) /\ stage' = Join(stage, stages)
      /\ UNCHANGED <<state, users, notkas, answers>>
  BY DEF Transmit, Join
<1>4. message.client = c /\ message.body = body
  OBVIOUS
<1>5. /\ asked \in Seq(Messages)
      /\ stage \in Seq(Stages) /\ Len(stage) = Len(asked)
  BY DEF ServerTyped
<1> HIDE DEF Messages, Stages, messages, stages, message
<1>6. /\ asked' \in Seq(Messages) /\ Len(asked') = Len(asked) + 1
      /\ \A h \in 1 .. Len(asked) : asked'[h] = asked[h]
      /\ asked'[Len(asked) + 1] = message
  <2>1. /\ asked' \in Seq(Messages) /\ Len(asked') = Len(asked) + Len(messages)
        /\ \A h \in 1 .. Len(asked) : asked'[h] = asked[h]
        /\ \A i \in 1 .. Len(messages) : asked'[Len(asked) + i] = messages[i]
    <3>1. Continues(Messages, asked', asked, messages)
      BY <1>1, <1>3, <1>5, Joined
    <3> QED
      BY <3>1 DEF Continues
  <2>2. 1 \in 1 .. Len(messages)
    BY <1>1
  <2> QED
    BY <1>1, <1>5, <2>1, <2>2
<1>7. /\ stage' \in Seq(Stages) /\ Len(stage') = Len(asked) + 1
      /\ \A h \in 1 .. Len(asked) : stage'[h] = stage[h]
      /\ stage'[Len(asked) + 1] = "asked"
  <2>1. /\ stage' \in Seq(Stages) /\ Len(stage') = Len(stage) + Len(stages)
        /\ \A h \in 1 .. Len(stage) : stage'[h] = stage[h]
        /\ \A i \in 1 .. Len(stages) : stage'[Len(stage) + i] = stages[i]
    <3>1. Continues(Stages, stage', stage, stages)
      BY <1>2, <1>3, <1>5, Joined
    <3> QED
      BY <3>1 DEF Continues
  <2>2. 1 \in 1 .. Len(stages)
    BY <1>2
  <2> QED
    BY <1>2, <1>5, <2>1, <2>2
<1>8. /\ Len(asked) \in Nat /\ DOMAIN asked = 1 .. Len(asked)
      /\ DOMAIN asked' = 1 .. Len(asked) + 1
      /\ \A h \in DOMAIN asked' \ DOMAIN asked : h = Len(asked) + 1
  BY <1>5, <1>6
<1>9. Extended(c)
  <2>1. \A h \in DOMAIN asked' \ DOMAIN asked : asked'[h].client = c /\ stage'[h] = "asked"
    BY <1>4, <1>6, <1>7, <1>8
  <2>2. \A h \in DOMAIN asked : asked'[h] = asked[h] /\ stage'[h] = stage[h]
    BY <1>6, <1>7, <1>8
  <2>3. Len(asked) <= Len(asked') /\ Len(stage') = Len(asked')
    BY <1>6, <1>7, <1>8
  <2> QED
    BY <1>3, <1>6, <1>7, <2>1, <2>2, <2>3 DEF Extended, Messages, Stages
<1> QED
  BY <1>4, <1>6, <1>8, <1>9 DEF Sends

LEMMA TransmitTwo ==
    ASSUME ServerTyped, NEW c \in Clients, NEW body \in Bodies,
           Transmit(c, <<[kind |-> "syn"], body>>)
    PROVE  Sends(c, body)
<1> DEFINE Messages == [client : Clients, body : Bodies]
           Stages == {"asked", "show", "done"}
           syn == [kind |-> "syn"]
           bodies == <<syn, body>>
           message == [client |-> c, body |-> body]
           handshake == [client |-> c, body |-> syn]
           messages == [i \in DOMAIN bodies |-> [client |-> c, body |-> bodies[i]]]
           stages == [i \in DOMAIN bodies |-> "asked"]
<1>0. syn \in Bodies
  BY DEF Bodies
<1>1. /\ messages \in Seq(Messages) /\ Len(messages) = 2
      /\ messages[1] = handshake /\ messages[2] = message
  BY <1>0
<1>2. /\ stages \in Seq(Stages) /\ Len(stages) = 2
      /\ stages[1] = "asked" /\ stages[2] = "asked"
  OBVIOUS
<1>3. /\ asked' = Join(asked, messages) /\ stage' = Join(stage, stages)
      /\ UNCHANGED <<state, users, notkas, answers>>
  BY DEF Transmit, Join
<1>4. /\ message.client = c /\ message.body = body
      /\ handshake.client = c /\ handshake.body.kind = "syn"
  OBVIOUS
<1>5. /\ asked \in Seq(Messages)
      /\ stage \in Seq(Stages) /\ Len(stage) = Len(asked)
  BY DEF ServerTyped
<1> HIDE DEF Messages, Stages, messages, stages, message, handshake
<1>6. /\ asked' \in Seq(Messages) /\ Len(asked') = Len(asked) + 2
      /\ \A h \in 1 .. Len(asked) : asked'[h] = asked[h]
      /\ asked'[Len(asked) + 1] = handshake /\ asked'[Len(asked) + 2] = message
  <2>1. /\ asked' \in Seq(Messages) /\ Len(asked') = Len(asked) + Len(messages)
        /\ \A h \in 1 .. Len(asked) : asked'[h] = asked[h]
        /\ \A i \in 1 .. Len(messages) : asked'[Len(asked) + i] = messages[i]
    <3>1. Continues(Messages, asked', asked, messages)
      BY <1>1, <1>3, <1>5, Joined
    <3> QED
      BY <3>1 DEF Continues
  <2>2. 1 \in 1 .. Len(messages) /\ 2 \in 1 .. Len(messages)
    BY <1>1
  <2> QED
    BY <1>1, <1>5, <2>1, <2>2
<1>7. /\ stage' \in Seq(Stages) /\ Len(stage') = Len(asked) + 2
      /\ \A h \in 1 .. Len(asked) : stage'[h] = stage[h]
      /\ stage'[Len(asked) + 1] = "asked" /\ stage'[Len(asked) + 2] = "asked"
  <2>1. /\ stage' \in Seq(Stages) /\ Len(stage') = Len(stage) + Len(stages)
        /\ \A h \in 1 .. Len(stage) : stage'[h] = stage[h]
        /\ \A i \in 1 .. Len(stages) : stage'[Len(stage) + i] = stages[i]
    <3>1. Continues(Stages, stage', stage, stages)
      BY <1>2, <1>3, <1>5, Joined
    <3> QED
      BY <3>1 DEF Continues
  <2>2. 1 \in 1 .. Len(stages) /\ 2 \in 1 .. Len(stages)
    BY <1>2
  <2> QED
    BY <1>2, <1>5, <2>1, <2>2
<1>8. /\ Len(asked) \in Nat /\ DOMAIN asked = 1 .. Len(asked)
      /\ DOMAIN asked' = 1 .. Len(asked) + 2
      /\ \A h \in DOMAIN asked' \ DOMAIN asked : h = Len(asked) + 1 \/ h = Len(asked) + 2
  BY <1>5, <1>6
<1>9. Extended(c)
  <2>1. \A h \in DOMAIN asked' \ DOMAIN asked : asked'[h].client = c /\ stage'[h] = "asked"
    BY <1>4, <1>6, <1>7, <1>8
  <2>2. \A h \in DOMAIN asked : asked'[h] = asked[h] /\ stage'[h] = stage[h]
    BY <1>6, <1>7, <1>8
  <2>3. Len(asked) <= Len(asked') /\ Len(stage') = Len(asked')
    BY <1>6, <1>7, <1>8
  <2> QED
    BY <1>3, <1>6, <1>7, <2>1, <2>2, <2>3 DEF Extended, Messages, Stages
<1> QED
  BY <1>4, <1>6, <1>8, <1>9 DEF Sends

LEMMA SendIs ==
    ASSUME ServerTyped, NEW c \in Clients, NEW body \in Bodies, Send(c, body)
    PROVE  \/ page[c].ws = "open" /\ Sends(c, body)
           \/ page[c].ws # "open" /\ Still
  BY TransmitOne DEF Send, Still, serverVars

LEMMA LoginsAre ==
    ASSUME NEW login \in Titles, NEW pass \in Passwords
    PROVE  /\ LoginBody(login, pass) \in Logins /\ LoginBody(login, pass) \in Bodies
           /\ LoginBody(login, pass).kind = "login" /\ LoginBody(login, pass).title = login
           /\ LoginBody(login, pass).password = pass
  BY DEF LoginBody, Logins, Bodies
-----------------------------------------------------------------------------
(* The other steps of a page.                                              *)

\* Only logins and answers are looked at: the rest of c's page is as it was.
SameScreen(c) ==
    /\ page'[c].root = page[c].root /\ page'[c].loginState = page[c].loginState
    /\ page'[c].editor = page[c].editor

SameUser(c) == user'[c] = user[c]
SameNext(c) == next'[c] = next[c]

\* Answer i is the next one for c.
HasNext(c, i) ==
    /\ page[c].ws = "open"
    /\ i \in DOMAIN answers /\ next[c] < i /\ To(i).client = c
    /\ \A j \in DOMAIN answers : next[c] < j /\ j < i => To(j).client # c
    /\ next'[c] = i

\* An answer that is not about a login.
Hears(c, i) ==
    /\ Still /\ Only(c) /\ SameUser(c) /\ HasNext(c, i)
    /\ answers[i].kind # "login_ack"
    /\ Like(page'[c], page[c])
    /\ page'[c].root = page[c].root /\ page'[c].loginState = page[c].loginState
    /\ page'[c].ws = page[c].ws /\ page'[c].blurs = page[c].blurs
    /\ \/ page'[c].editor = page[c].editor
       \/ page'[c].editor = TRUE /\ answers[i].kind \in {"notka", "save_ack"}

\* A save, by a click or by the timer of a blur.
SaveBody(c) == [kind |-> "save", title |-> page[c].login_, text |-> page[c].notka]

Saves(c) ==
    /\ Only(c) /\ SameNext(c)
    /\ Like(page'[c], page[c]) /\ SameScreen(c)
    /\ page'[c].ws = page[c].ws
    /\ page[c].editor \/ page[c].blurs > 0
    /\ page'[c].blurs <= page[c].blurs /\ user'[c].blurs = user[c].blurs
    /\ user'[c].submits = user[c].submits /\ user'[c].wishes = user[c].wishes
    /\ user'[c].hasty = user[c].hasty
    /\ Still \/ Sends(c, SaveBody(c))

\* A login that waited is sent.
Puts(c, i) ==
    /\ Only(c) /\ SameNext(c) /\ SameUser(c) /\ SameScreen(c)
    /\ page[c].ws = "open" /\ i \in DOMAIN page[c].waiting
    /\ Sends(c, page[c].waiting[i])
    /\ page'[c].waiting \in Seq(Logins)
    /\ Len(page'[c].waiting) = Len(page[c].waiting) - 1
    /\ page'[c].login_ = page[c].login_ /\ page'[c].password_ = page[c].password_
    /\ page'[c].autologin = page[c].autologin /\ page'[c].link = page[c].link
    /\ page'[c].greeting = page[c].greeting
    /\ page'[c].ws = page[c].ws /\ page'[c].blurs = page[c].blurs

\* The socket opens.
Connects(c) ==
    /\ Only(c) /\ SameNext(c) /\ SameUser(c) /\ SameScreen(c)
    /\ page'[c].ws = "open" /\ page'[c].blurs = page[c].blurs
    /\ page'[c].waiting = page[c].waiting /\ page'[c].link = page[c].link
    /\ page'[c].greeting = page[c].greeting
    /\ ~page'[c].autologin
    /\ IF page[c].autologin
       THEN /\ page'[c].login_ = page[c].link.login /\ page'[c].password_ = page[c].link.pass
            /\ Sends(c, LoginBody(page[c].link.login, page[c].link.pass))
       ELSE /\ page'[c].login_ = page[c].login_ /\ page'[c].password_ = page[c].password_
            /\ Sends(c, [kind |-> "syn"])

LEMMA OneOf ==
    ASSUME PagesTyped, NEW c \in Clients, NEW p \in Pages, Become(c, p)
    PROVE  /\ page' \in [Clients -> Pages] /\ page'[c] = p
           /\ user' = user => user' \in [Clients -> Habits] /\ SameUser(c)
           /\ next' = next => next' \in [Clients -> Nat] /\ SameNext(c)
           /\ user' = user /\ next' = next => Only(c) /\ PagesTyped'
  BY BecomeIs DEF PagesTyped, Only, SameUser, SameNext

LEMMA IncomingIs ==
    ASSUME ServerTyped, PagesTyped, NEW c \in Clients, NEW i \in DOMAIN answers, NEW kind,
           Incoming(c, i, kind)
    PROVE  /\ HasNext(c, i) /\ answers[i].kind = kind /\ user' = user
           /\ next' \in [Clients -> Nat] /\ \A d \in Clients : d # c => next'[d] = next[d]
<1>1. i \in Nat /\ next[c] \in Nat
  BY Typing, PageIs
<1>2. /\ page[c].ws = "open" /\ i > next[c] /\ i \in AnswersTo(c, kind)
      /\ \A j \in next[c]+1 .. i-1 : asked[answers[j].to].client # c
      /\ next' = [next EXCEPT ![c] = i] /\ user' = user
  BY DEF Incoming
<1>3. answers[i].kind = kind /\ To(i).client = c
  BY <1>2 DEF AnswersTo, To
<1>4. \A j \in DOMAIN answers : next[c] < j /\ j < i => j \in next[c]+1 .. i-1
  BY <1>1, Typing
<1>5. \A j \in DOMAIN answers : next[c] < j /\ j < i => To(j).client # c
  BY <1>2, <1>4 DEF To
<1>6. next' \in [Clients -> Nat] /\ next'[c] = i /\ \A d \in Clients : d # c => next'[d] = next[d]
  BY <1>1, <1>2 DEF PagesTyped
<1> QED
  BY <1>1, <1>2, <1>3, <1>5, <1>6 DEF HasNext

LEMMA Hearing ==
    ASSUME ServerTyped, PagesTyped, NEW c \in Clients, NEW i \in DOMAIN answers,
           rx_msg_notka(c, i) \/ rx_other(c, i)
    PROVE  Hears(c, i) /\ PagesTyped'
<1>0. page[c] \in Pages
  BY PageIs
<1>1. CASE rx_msg_notka(c, i)
  <2> DEFINE p == [page[c] EXCEPT !.notka = answers[i].value, !.editor = TRUE]
  <2>1. /\ HasNext(c, i) /\ answers[i].kind = "notka" /\ user' = user
        /\ next' \in [Clients -> Nat] /\ \A d \in Clients : d # c => next'[d] = next[d]
    BY <1>1, IncomingIs DEF rx_msg_notka
  <2>2. Become(c, p) /\ Still
    BY <1>1 DEF rx_msg_notka, Become, Still, serverVars
  <2>3. answers[i].value \in Contents
    <3>1. answers[i] \in AnswerSet
      BY DEF ServerTyped
    <3> QED
      BY <2>1, <3>1 DEF AnswerSet
  <2>4. /\ p \in Pages /\ Like(p, page[c]) /\ p.root = page[c].root
        /\ p.loginState = page[c].loginState /\ p.ws = page[c].ws /\ p.blurs = page[c].blurs
        /\ p.editor = TRUE
    BY <1>0, <2>3 DEF Pages, Like
  <2> HIDE DEF p
  <2>5. page' \in [Clients -> Pages] /\ page'[c] = p /\ \A d \in Clients : d # c => page'[d] = page[d]
    BY <2>2, <2>4, BecomeIs
  <2>6. Only(c) /\ SameUser(c) /\ PagesTyped'
    BY <2>1, <2>5 DEF Only, SameUser, PagesTyped
  <2> QED
    BY <2>1, <2>2, <2>4, <2>5, <2>6 DEF Hears
<1>2. CASE Incoming(c, i, "save_ack") /\ page' = [page EXCEPT ![c].editor = TRUE] /\ rx_other(c, i)
  <2> DEFINE p == [page[c] EXCEPT !.editor = TRUE]
  <2>1. /\ HasNext(c, i) /\ answers[i].kind = "save_ack" /\ user' = user
        /\ next' \in [Clients -> Nat] /\ \A d \in Clients : d # c => next'[d] = next[d]
    BY <1>2, IncomingIs
  <2>2. Become(c, p) /\ Still
    BY <1>2 DEF rx_other, Become, Still, serverVars
  <2>4. /\ p \in Pages /\ Like(p, page[c]) /\ p.root = page[c].root
        /\ p.loginState = page[c].loginState /\ p.ws = page[c].ws /\ p.blurs = page[c].blurs
        /\ p.editor = TRUE
    BY <1>0 DEF Pages, Like
  <2> HIDE DEF p
  <2>5. page' \in [Clients -> Pages] /\ page'[c] = p /\ \A d \in Clients : d # c => page'[d] = page[d]
    BY <2>2, <2>4, BecomeIs
  <2>6. Only(c) /\ SameUser(c) /\ PagesTyped'
    BY <2>1, <2>5 DEF Only, SameUser, PagesTyped
  <2> QED
    BY <2>1, <2>2, <2>4, <2>5, <2>6 DEF Hears
<1>3. CASE Incoming(c, i, "syn_ack") /\ page' = page /\ rx_other(c, i)
  <2>1. /\ HasNext(c, i) /\ answers[i].kind = "syn_ack" /\ user' = user
        /\ next' \in [Clients -> Nat] /\ \A d \in Clients : d # c => next'[d] = next[d]
    BY <1>3, IncomingIs
  <2>2. Still
    BY <1>3 DEF rx_other, Still, serverVars
  <2>6. Only(c) /\ SameUser(c) /\ PagesTyped'
    BY <1>3, <2>1 DEF Only, SameUser, PagesTyped
  <2> QED
    BY <1>3, <2>1, <2>2, <2>6 DEF Hears, Like
<1> QED
  BY <1>1, <1>2, <1>3 DEF rx_other

LEMMA Saving ==
    ASSUME ServerTyped, PagesTyped, NEW c \in Clients, Save(c) \/ BlurTimer(c)
    PROVE  Saves(c) /\ PagesTyped'
<1>0. page[c] \in Pages /\ user[c] \in Habits
  BY PageIs
<1>1. SaveBody(c) \in Bodies
  BY <1>0 DEF SaveBody, Bodies, Pages, Contents
<1>2. tx_msg_save_req(c) => Still \/ Sends(c, SaveBody(c))
  BY <1>1, SendIs DEF tx_msg_save_req, SaveBody
<1>3. CASE Save(c)
  <2> DEFINE u == [user[c] EXCEPT !.saves = @ + 1]
  <2>1. /\ u \in Habits /\ u.submits = user[c].submits /\ u.wishes = user[c].wishes
        /\ u.blurs = user[c].blurs /\ u.hasty = user[c].hasty
    BY <1>0 DEF Habits
  <2>2. /\ user' = [user EXCEPT ![c] = u] /\ page' = page /\ next' = next
        /\ page[c].editor /\ tx_msg_save_req(c)
    BY <1>3 DEF Save, InEditor
  <2> HIDE DEF u
  <2>3. /\ user' \in [Clients -> Habits] /\ user'[c] = u
        /\ \A d \in Clients : d # c => user'[d] = user[d]
    BY <2>1, <2>2 DEF PagesTyped
  <2>4. PagesTyped' /\ Only(c) /\ SameNext(c)
    BY <2>2, <2>3 DEF PagesTyped, Only, SameNext
  <2>5. page[c].blurs <= page[c].blurs
    BY <1>0 DEF Pages
  <2> QED
    BY <1>2, <2>1, <2>2, <2>3, <2>4, <2>5 DEF Saves, Like, SameScreen
<1>4. CASE BlurTimer(c)
  <2> DEFINE p == [page[c] EXCEPT !.blurs = @ - 1]
  <2>1. page[c].blurs > 0 /\ page[c].blurs \in Nat
    BY <1>0, <1>4 DEF BlurTimer, Pages
  <2>2. /\ p \in Pages /\ Like(p, page[c]) /\ p.root = page[c].root
        /\ p.loginState = page[c].loginState /\ p.ws = page[c].ws
        /\ p.editor = page[c].editor /\ p.blurs = page[c].blurs - 1
    <3>1. page[c].blurs - 1 \in Nat
      BY <2>1
    <3> QED
      BY <1>0, <3>1 DEF Pages, Like
  <2>3. Become(c, p) /\ tx_msg_save_req(c) /\ user' = user /\ next' = next
    BY <1>4 DEF BlurTimer, Become
  <2> HIDE DEF p
  <2>4. page'[c] = p /\ Only(c) /\ SameNext(c) /\ SameUser(c) /\ PagesTyped'
    BY <2>2, <2>3, OneOf
  <2>5. p.blurs <= page[c].blurs
    BY <2>1, <2>2
  <2> QED
    BY <1>2, <2>1, <2>2, <2>3, <2>4, <2>5 DEF Saves, SameScreen, SameUser
<1> QED
  BY <1>3, <1>4
\* The title and the password in the form are sent, or put off.
Submits(c) ==
    /\ page[c].root # "gone" /\ page[c].loginState \in {"LOGIN", "LOGIN_PASS", "REGISTER"}
    /\ user'[c].hasty \/ ~AnswerDue(c)
    /\ Only(c) /\ SameNext(c) /\ SameScreen(c)
    /\ user'[c].submits = user[c].submits + 1 /\ user'[c].blurs = user[c].blurs
    /\ user[c].wishes \subseteq user'[c].wishes
    /\ page[c].loginState = "REGISTER" =>
          [title |-> page[c].form.login, password |-> page[c].box.pass] \in user'[c].wishes
    /\ page'[c].login_ = page[c].form.login /\ page'[c].password_ = page[c].form.pass
    /\ page'[c].autologin = page[c].autologin /\ page'[c].link = page[c].link
    /\ page'[c].greeting = page[c].greeting
    /\ page'[c].ws = page[c].ws /\ page'[c].blurs = page[c].blurs
    /\ \/ /\ Sends(c, LoginBody(page[c].form.login, page[c].form.pass))
          /\ page'[c].waiting = page[c].waiting
       \/ /\ Still
          /\ page'[c].waiting = Append(page[c].waiting,
                                       LoginBody(page[c].form.login, page[c].form.pass))

\* The acknowledgement of a login is answer i.
Heeds(c, i) ==
    /\ Only(c) /\ SameUser(c) /\ HasNext(c, i)
    /\ answers[i].kind = "login_ack"
    /\ page'[c].login_ = page[c].login_ /\ page'[c].password_ = page[c].password_
    /\ page'[c].waiting = page[c].waiting /\ page'[c].autologin = page[c].autologin
    /\ page'[c].link = page[c].link
    /\ page'[c].ws = page[c].ws /\ page'[c].blurs = page[c].blurs
    /\ \/ /\ Still /\ answers[i].value = "LOGGED_IN"
          /\ page'[c].root = "gone" /\ page'[c].editor = TRUE
          /\ page'[c].greeting = page[c].login_
          /\ page'[c].loginState = page[c].loginState
       \/ /\ answers[i].value = "NO_SUCH_USER" /\ page[c].loginState = "REGISTER"
          /\ SameScreen(c) /\ page'[c].greeting = page[c].greeting
          /\ Sends(c, LoginBody(page[c].login_, page[c].password_))
       \/ /\ Still /\ answers[i].value # "LOGGED_IN"
          /\ page'[c].loginState = ScreenAfter(answers[i].value, page[c].loginState)
          /\ page'[c].root = IF page[c].root = "router" THEN "form" ELSE page[c].root
          /\ page'[c].editor = page[c].editor /\ page'[c].greeting = page[c].greeting

LEMMA Removed ==
    ASSUME NEW S, NEW s \in Seq(S), NEW i \in DOMAIN s
    PROVE  RemoveAt(s, i) \in Seq(S) /\ Len(RemoveAt(s, i)) = Len(s) - 1
<1> DEFINE a == SubSeq(s, 1, i-1)
           b == SubSeq(s, i+1, Len(s))
<1>1. a \in Seq(S) /\ Len(a) = i - 1
  OBVIOUS
<1>2. b \in Seq(S) /\ Len(b) = Len(s) - i
  OBVIOUS
<1>3. RemoveAt(s, i) = Join(a, b)
  BY DEF RemoveAt, Join
<1> HIDE DEF a, b
<1>4. RemoveAt(s, i) \in Seq(S) /\ Len(RemoveAt(s, i)) = Len(a) + Len(b)
  <2>1. Continues(S, RemoveAt(s, i), a, b)
    BY <1>1, <1>2, <1>3, Joined
  <2> QED
    BY <2>1 DEF Continues
<1> QED
  BY <1>1, <1>2, <1>4

LEMMA Putting ==
    ASSUME ServerTyped, PagesTyped, NEW c \in Clients, SendTimer(c)
    PROVE  (\E i \in DOMAIN page[c].waiting : Puts(c, i)) /\ PagesTyped'
<1>0. page[c] \in Pages /\ page[c].waiting \in Seq(Logins)
  <2>1. page[c] \in Pages
    BY PageIs
  <2> QED
    BY <2>1 DEF Pages
<1>1. PICK i \in DOMAIN page[c].waiting :
        /\ page[c].ws = "open" /\ Send(c, page[c].waiting[i])
        /\ page' = [page EXCEPT ![c].waiting = RemoveAt(@, i)]
        /\ next' = next /\ user' = user
  BY DEF SendTimer
<1>2. PICK rest \in Seq(Logins) : /\ rest = RemoveAt(page[c].waiting, i)
                                 /\ Len(rest) = Len(page[c].waiting) - 1
  BY <1>0, Removed
<1>3. page[c].waiting[i] \in Bodies
  <2>1. page[c].waiting[i] \in Logins
    BY <1>0
  <2> QED
    BY <2>1 DEF Logins, Bodies
<1>4. Sends(c, page[c].waiting[i])
  BY <1>1, <1>3, SendIs
<1> DEFINE p == [page[c] EXCEPT !.waiting = rest]
<1>5. Become(c, p)
  BY <1>1, <1>2 DEF Become
<1>6. /\ p \in Pages /\ p.waiting = rest /\ p.login_ = page[c].login_
      /\ p.password_ = page[c].password_ /\ p.autologin = page[c].autologin
      /\ p.link = page[c].link /\ p.greeting = page[c].greeting /\ p.ws = page[c].ws
      /\ p.blurs = page[c].blurs /\ p.root = page[c].root /\ p.editor = page[c].editor
      /\ p.loginState = page[c].loginState
  BY <1>0 DEF Pages
<1> HIDE DEF p
<1>7. page'[c] = p /\ Only(c) /\ SameNext(c) /\ SameUser(c) /\ PagesTyped'
  BY <1>1, <1>5, <1>6, OneOf
<1>8. Puts(c, i)
  BY <1>1, <1>2, <1>4, <1>6, <1>7 DEF Puts, SameScreen
<1> QED
  BY <1>7, <1>8

LEMMA Opening ==
    ASSUME ServerTyped, PagesTyped, NEW c \in Clients, OnOpen(c)
    PROVE  Connects(c) /\ PagesTyped'
<1>0. page[c] \in Pages
  BY PageIs
<1>1. next' = next /\ user' = user
  BY DEF OnOpen
<1>2. CASE page[c].autologin
  <2> DEFINE login == page[c].link.login
             pass == page[c].link.pass
             p == [page[c] EXCEPT !.ws = "open", !.autologin = FALSE,
                                  !.login_ = login, !.password_ = pass]
  <2>1. login \in Titles /\ pass \in Passwords
    BY <1>0 DEF Pages, Forms
  <2>2. Become(c, p) /\ Transmit(c, <<[kind |-> "syn"], LoginBody(login, pass)>>)
    BY <1>2 DEF OnOpen, Become
  <2>3. /\ p \in Pages /\ p.waiting = page[c].waiting /\ p.login_ = login
        /\ p.password_ = pass /\ ~p.autologin
        /\ p.link = page[c].link /\ p.greeting = page[c].greeting /\ p.ws = "open"
        /\ p.blurs = page[c].blurs /\ p.root = page[c].root /\ p.editor = page[c].editor
        /\ p.loginState = page[c].loginState
    BY <1>0, <2>1 DEF Pages
  <2>4. Sends(c, LoginBody(login, pass))
    BY <2>1, <2>2, LoginsAre, TransmitTwo
  <2> HIDE DEF p
  <2>5. page'[c] = p /\ Only(c) /\ SameNext(c) /\ SameUser(c) /\ PagesTyped'
    BY <1>1, <2>2, <2>3, OneOf
  <2> QED
    BY <1>2, <2>3, <2>4, <2>5 DEF Connects, SameScreen
<1>3. CASE ~page[c].autologin
  <2> DEFINE p == [page[c] EXCEPT !.ws = "open"]
  <2>2. Become(c, p) /\ Transmit(c, <<[kind |-> "syn"]>>)
    BY <1>3 DEF OnOpen, Become
  <2>3. /\ p \in Pages /\ p.waiting = page[c].waiting /\ p.login_ = page[c].login_
        /\ p.password_ = page[c].password_ /\ ~p.autologin
        /\ p.link = page[c].link /\ p.greeting = page[c].greeting /\ p.ws = "open"
        /\ p.blurs = page[c].blurs /\ p.root = page[c].root /\ p.editor = page[c].editor
        /\ p.loginState = page[c].loginState
    BY <1>0, <1>3 DEF Pages
  <2>4. Sends(c, [kind |-> "syn"])
    <3>1. [kind |-> "syn"] \in Bodies
      BY DEF Bodies
    <3> QED
      BY <2>2, <3>1, TransmitOne
  <2> HIDE DEF p
  <2>5. page'[c] = p /\ Only(c) /\ SameNext(c) /\ SameUser(c) /\ PagesTyped'
    BY <1>1, <2>2, <2>3, OneOf
  <2> QED
    BY <1>3, <2>3, <2>4, <2>5 DEF Connects, SameScreen
<1> QED
  BY <1>2, <1>3

\* What tx_msg_login makes of page p.
Told(q, p, login, pass) ==
    /\ q.login_ = login /\ q.password_ = pass
    /\ q.autologin = p.autologin /\ q.link = p.link /\ q.greeting = p.greeting
    /\ q.ws = p.ws /\ q.blurs = p.blurs /\ q.root = p.root /\ q.editor = p.editor
    /\ q.loginState = p.loginState

LEMMA Telling ==
    ASSUME ServerTyped, PagesTyped, NEW c \in Clients, NEW login \in Titles, NEW pass \in Passwords,
           NEW p \in Pages, p.ws = page[c].ws, tx_msg_login(c, login, pass, p)
    PROVE  \E q \in Pages :
              /\ Become(c, q) /\ Told(q, p, login, pass)
              /\ \/ p.ws = "open" /\ Sends(c, LoginBody(login, pass)) /\ q.waiting = p.waiting
                 \/ p.ws # "open" /\ Still /\ q.waiting = Append(p.waiting, LoginBody(login, pass))
<1> DEFINE sent == [p EXCEPT !.login_ = login, !.password_ = pass]
<1>0. LoginBody(login, pass) \in Logins /\ LoginBody(login, pass) \in Bodies
  BY LoginsAre
<1>1. /\ Send(c, LoginBody(login, pass))
      /\ Become(c, IF p.ws = "open" THEN sent
                   ELSE [sent EXCEPT !.waiting = Append(@, LoginBody(login, pass))])
  BY DEF tx_msg_login
<1>2. PICK body : body = LoginBody(login, pass)
  OBVIOUS
<1>3. CASE p.ws = "open"
  <2>1. sent \in Pages /\ Told(sent, p, login, pass) /\ sent.waiting = p.waiting
    BY DEF Pages, Told
  <2>2. Become(c, sent) /\ Sends(c, LoginBody(login, pass))
    BY <1>0, <1>1, <1>3, SendIs
  <2> QED
    BY <1>3, <2>1, <2>2
<1>4. CASE p.ws # "open"
  <2> DEFINE q == [p EXCEPT !.login_ = login, !.password_ = pass,
                            !.waiting = Append(p.waiting, body)]
  <2>1. Append(p.waiting, body) \in Seq(Logins)
    BY <1>0, <1>2 DEF Pages
  <2>2. q \in Pages /\ Told(q, p, login, pass) /\ q.waiting = Append(p.waiting, body)
    BY <2>1 DEF Pages, Told
  <2>3. Still
    BY <1>0, <1>1, <1>4, SendIs
  <2>4. Become(c, q)
    <3>1. [sent EXCEPT !.waiting = Append(@, body)] = q
      BY DEF Pages
    <3> QED
      BY <1>1, <1>2, <1>4, <3>1
  <2> HIDE DEF q
  <2> QED
    BY <1>2, <1>4, <2>2, <2>3, <2>4
<1> QED
  BY <1>3, <1>4

LEMMA Submitting ==
    ASSUME ServerTyped, PagesTyped, NEW c \in Clients, handleSubmit(c)
    PROVE  Submits(c) /\ PagesTyped'
<1> DEFINE p == Submitted(page[c])
           login == page[c].form.login
           pass == page[c].form.pass
           wish == [title |-> login, password |-> page[c].box.pass]
           wishes == IF page[c].loginState = "REGISTER" THEN user[c].wishes \cup {wish}
                                                        ELSE user[c].wishes
           hasty == AnswerDue(c)
           u == [user[c] EXCEPT !.submits = @ + 1, !.hurry = Hurry(c), !.wishes = wishes,
                                !.hasty = hasty]
<1>0. page[c] \in Pages /\ user[c] \in Habits
  BY PageIs
<1>1. /\ login \in Titles /\ pass \in Passwords /\ page[c].box.pass \in Passwords
  BY <1>0 DEF Pages, Forms
<1>2. /\ page[c].root # "gone" /\ "go" \in Controls(page[c].loginState)
      /\ tx_msg_login(c, login, pass, p) /\ next' = next
  BY DEF handleSubmit, AtForms
<1>3. user' = [user EXCEPT ![c] = u]
  BY DEF handleSubmit
<1>4. page[c].loginState \in {"LOGIN", "LOGIN_PASS", "REGISTER"}
  BY <1>0, <1>2 DEF Pages, Screens, Controls
<1>5. /\ p \in Pages /\ p.waiting = page[c].waiting /\ p.autologin = page[c].autologin
      /\ p.link = page[c].link /\ p.greeting = page[c].greeting /\ p.ws = page[c].ws
      /\ p.blurs = page[c].blurs /\ p.root = page[c].root /\ p.editor = page[c].editor
      /\ p.loginState = page[c].loginState
  <2>1. CASE page[c].loginState = "LOGIN"
    <3>1. PICK box \in Forms : box = [page[c].box EXCEPT !.login = EmptyTitle]
      BY <1>0, ClientAssumption DEF Pages, Forms
    <3>2. p = [page[c] EXCEPT !.box = box]
      BY <1>0, <2>1, <3>1 DEF Submitted, Pages
    <3> QED
      BY <1>0, <3>2 DEF Pages
  <2>2. CASE page[c].loginState = "LOGIN_PASS"
    <3>1. PICK form \in Forms : form = [page[c].form EXCEPT !.pass = page[c].box.pass]
      BY <1>0, <1>1 DEF Pages, Forms
    <3>2. p = [page[c] EXCEPT !.form = form]
      BY <1>0, <2>2, <3>1 DEF Submitted, Pages
    <3> QED
      BY <1>0, <3>2 DEF Pages
  <2>3. CASE page[c].loginState = "REGISTER"
    <3>1. p = page[c]
      BY <2>3 DEF Submitted
    <3> QED
      BY <1>0, <3>1
  <2> QED
    BY <1>4, <2>1, <2>2, <2>3
<1>6. /\ u \in Habits /\ u.submits = user[c].submits + 1 /\ u.blurs = user[c].blurs
      /\ u.wishes = wishes /\ (u.hasty \/ ~AnswerDue(c))
  <2>1. wishes \in SUBSET [title : Titles, password : Passwords]
    BY <1>0, <1>1 DEF Habits
  <2> HIDE DEF wishes
  <2>2. user[c].submits + 1 \in Nat
    BY <1>0 DEF Habits
  <2>6. hasty \in BOOLEAN /\ (hasty \/ ~AnswerDue(c))
    BY DEF AnswerDue
  <2> HIDE DEF hasty
  <2>3. PICK n \in Nat, m \in Nat, W \in SUBSET [title : Titles, password : Passwords] :
           n = user[c].submits + 1 /\ m = Hurry(c) /\ W = wishes
    BY <2>1, <2>2, HurryIs
  <2>4. u = [user[c] EXCEPT !.submits = n, !.hurry = m, !.wishes = W, !.hasty = hasty]
    BY <2>3
  <2>5. /\ u \in Habits /\ u.submits = n /\ u.blurs = user[c].blurs /\ u.wishes = W
        /\ u.hasty = hasty
    <3> HIDE DEF u
    <3> QED
      BY <1>0, <2>4, <2>6 DEF Habits
  <2> QED
    BY <2>3, <2>5, <2>6
<1> HIDE DEF p
<1>7. PICK q \in Pages :
        /\ Become(c, q) /\ Told(q, p, login, pass)
        /\ \/ p.ws = "open" /\ Sends(c, LoginBody(login, pass)) /\ q.waiting = p.waiting
           \/ p.ws # "open" /\ Still /\ q.waiting = Append(p.waiting, LoginBody(login, pass))
  BY <1>1, <1>2, <1>5, Telling
<1>8. page' \in [Clients -> Pages] /\ page'[c] = q /\ \A d \in Clients : d # c => page'[d] = page[d]
  BY <1>7, BecomeIs
<1> HIDE DEF u
<1>9. /\ user' \in [Clients -> Habits] /\ user'[c] = u
      /\ \A d \in Clients : d # c => user'[d] = user[d]
  BY <1>3, <1>6 DEF PagesTyped
<1>10. PagesTyped' /\ Only(c) /\ SameNext(c)
  BY <1>2, <1>8, <1>9 DEF PagesTyped, Only, SameNext
<1>11. SameScreen(c)
  BY <1>5, <1>7, <1>8 DEF SameScreen, Told
<1> QED
  BY <1>2, <1>4, <1>5, <1>6, <1>7, <1>8, <1>9, <1>10, <1>11 DEF Submits, Told

LEMMA Heeding ==
    ASSUME ServerTyped, PagesTyped, NEW c \in Clients, NEW i \in DOMAIN answers,
           rx_msg_login_ack(c, i)
    PROVE  Heeds(c, i) /\ PagesTyped'
<1>0. page[c] \in Pages
  BY PageIs
<1>1. /\ HasNext(c, i) /\ answers[i].kind = "login_ack" /\ user' = user
      /\ next' \in [Clients -> Nat] /\ \A d \in Clients : d # c => next'[d] = next[d]
  BY IncomingIs DEF rx_msg_login_ack
<1>w. page[c].ws = "open"
  BY <1>1 DEF HasNext
<1>p. ASSUME NEW p \in Pages, Become(c, p)
      PROVE  page'[c] = p /\ Only(c) /\ SameUser(c) /\ PagesTyped'
  <2>1. page' \in [Clients -> Pages] /\ page'[c] = p /\ \A d \in Clients : d # c => page'[d] = page[d]
    BY <1>p, BecomeIs
  <2> QED
    BY <1>1, <2>1 DEF Only, SameUser, PagesTyped
<1>2. CASE IsLoggedIn(answers[i].value) /\ Become(c, Opened(page[c])) /\ UNCHANGED serverVars
  <2> DEFINE p == Opened(page[c])
  <2>1. answers[i].value = "LOGGED_IN" /\ Become(c, p) /\ Still
    BY <1>2 DEF IsLoggedIn, Still, serverVars
  <2>2. /\ p \in Pages /\ p.waiting = page[c].waiting /\ p.autologin = page[c].autologin
        /\ p.link = page[c].link /\ p.greeting = page[c].login_ /\ p.ws = page[c].ws
        /\ p.blurs = page[c].blurs /\ p.root = "gone" /\ p.editor = TRUE
        /\ p.loginState = page[c].loginState
        /\ p.login_ = page[c].login_ /\ p.password_ = page[c].password_
    BY <1>0 DEF Opened, Pages
  <2> HIDE DEF p
  <2>3. page'[c] = p /\ Only(c) /\ SameUser(c) /\ PagesTyped'
    BY <2>1, <2>2, <1>p
  <2> QED
    BY <1>1, <2>1, <2>2, <2>3 DEF Heeds
<1>3. CASE MustResend(page[c], answers[i].value)
           /\ tx_msg_login(c, page[c].login_, page[c].password_, page[c])
  <2>1. answers[i].value = "NO_SUCH_USER" /\ page[c].loginState = "REGISTER"
    BY <1>3 DEF MustResend
  <2>2. page[c].login_ \in Titles /\ page[c].password_ \in Passwords
    BY <1>0 DEF Pages
  <2>3. PICK q \in Pages : /\ Become(c, q) /\ Told(q, page[c], page[c].login_, page[c].password_)
                          /\ Sends(c, LoginBody(page[c].login_, page[c].password_))
                          /\ q.waiting = page[c].waiting
    BY <1>0, <1>3, <1>w, <2>2, Telling
  <2>4. page'[c] = q /\ Only(c) /\ SameUser(c) /\ PagesTyped'
    BY <2>3, <1>p
  <2>5. SameScreen(c)
    BY <2>3, <2>4 DEF SameScreen, Told
  <2> QED
    BY <1>1, <2>1, <2>3, <2>4, <2>5 DEF Heeds, Told
<1>4. ASSUME NEW login \in Titles, ~IsLoggedIn(answers[i].value), UNCHANGED serverVars,
             Become(c, Rendered(page[c], ScreenAfter(answers[i].value, page[c].loginState), login))
      PROVE  Heeds(c, i) /\ PagesTyped'
  <2> DEFINE s == ScreenAfter(answers[i].value, page[c].loginState)
             p == Rendered(page[c], s, login)
  <2>1. s \in Screens
    BY <1>0 DEF ScreenAfter, Screens
  <2>2. answers[i].value # "LOGGED_IN" /\ Become(c, p) /\ Still
    BY <1>4 DEF IsLoggedIn, Still, serverVars
  <2> HIDE DEF s, p
  <2>3. /\ p \in Pages /\ p.waiting = page[c].waiting /\ p.autologin = page[c].autologin
        /\ p.link = page[c].link /\ p.greeting = page[c].greeting /\ p.ws = page[c].ws
        /\ p.blurs = page[c].blurs /\ p.editor = page[c].editor
        /\ p.root = IF page[c].root = "router" THEN "form" ELSE page[c].root
        /\ p.loginState = s
        /\ p.login_ = page[c].login_ /\ p.password_ = page[c].password_
    BY <1>0, <2>1, RenderedIs DEF p
  <2>4. page'[c] = p /\ Only(c) /\ SameUser(c) /\ PagesTyped'
    BY <2>2, <2>3, <1>p
  <2> QED
    BY <1>1, <2>2, <2>3, <2>4 DEF Heeds, s
<1>5. page[c].login_ \in Titles /\ EmptyTitle \in Titles
  BY <1>0, ClientAssumption DEF Pages
<1> QED
  BY <1>2, <1>3, <1>4, <1>5 DEF rx_msg_login_ack
-----------------------------------------------------------------------------
(* The page's invariant.                                                   *)

LEMMA StillSame ==
    ASSUME Still, NEW d
    PROVE  /\ LoginsAsked(d)' = LoginsAsked(d) /\ Served(d)' = Served(d)
           /\ Acks(d)' = Acks(d) /\ Refusals(d)' = Refusals(d)
           /\ \A i \in DOMAIN answers : To(i)' = To(i)
  BY DEF Still, LoginsAsked, Served, Acks, Refusals, AnswersTo, To

LEMMA StillKeepsServer ==
    ASSUME ServerInv, Still
    PROVE  ServerInv'
<1> USE DEF ServerInv
<1>1. ServerTyped'
  BY DEF Still, ServerTyped
<1>2. AnswersFit' /\ ShownAfterAck'
  BY DEF Still, AnswersFit, ShownAfterAck, Opens, To
<1>3. AcksCounted'
  BY StillSame DEF Still, AcksCounted
<1> QED
  BY <1>1, <1>2, <1>3

\* Only c's page does something, and the server gets messages of c at most.
Acts(c) == Only(c) /\ (Still \/ Extended(c))

LEMMA ActsSets ==
    ASSUME ServerTyped, NEW c \in Clients, Acts(c), NEW d \in Clients
    PROVE  /\ answers' = answers /\ users' = users /\ state' = state
           /\ Served(d)' = Served(d) /\ Acks(d)' = Acks(d) /\ Refusals(d)' = Refusals(d)
           /\ LoginsAsked(d) \subseteq LoginsAsked(d)'
           /\ d # c => LoginsAsked(d)' = LoginsAsked(d)
           /\ \A h \in DOMAIN asked : h \in DOMAIN asked' /\ asked'[h] = asked[h]
           /\ \A h \in DOMAIN asked' \ DOMAIN asked : asked'[h].client = c
           /\ \A i \in DOMAIN answers : To(i)' = To(i)
<1>1. CASE Still
  BY <1>1, StillSame DEF Still
<1>2. CASE Extended(c)
  <2>1. /\ Served(d)' = Served(d) /\ Acks(d)' = Acks(d) /\ Refusals(d)' = Refusals(d)
        /\ LoginsAsked(d) \subseteq LoginsAsked(d)'
        /\ d # c => LoginsAsked(d)' = LoginsAsked(d)
        /\ DOMAIN asked \subseteq DOMAIN asked'
        /\ \A i \in DOMAIN answers : To(i)' = To(i)
    BY <1>2, SendsSets
  <2> QED
    BY <1>2, <2>1 DEF Extended
<1> QED
  BY <1>1, <1>2 DEF Acts

LEMMA ActsKeepsServer ==
    ASSUME ServerInv, NEW c \in Clients, Acts(c)
    PROVE  ServerInv'
  BY StillKeepsServer, SendsKeepServer DEF Acts

\* Logins asked are counted.
LEMMA SentIs ==
    ASSUME ServerTyped, PagesTyped, NEW c \in Clients
    PROVE  /\ Cardinality(LoginsAsked(c)) \in Nat /\ Len(page[c].waiting) \in Nat
           /\ Sent(c) \in Nat /\ Wanted(c) \in Nat
           /\ Cardinality(RefusalsSeen(c)) \in Nat
           /\ Cardinality(LoginsAsked(c)) <= Sent(c)
<1>1. page[c] \in Pages /\ user[c] \in Habits
  BY PageIs
<1>2. page[c].waiting \in Seq(Logins) /\ user[c].submits \in Nat
  BY <1>1 DEF Pages, Habits
<1>3. Cardinality(LoginsAsked(c)) \in Nat /\ Cardinality(RefusalsSeen(c)) \in Nat
  BY SetsAre, FS_CardinalityType
<1>4. Sent(c) \in Nat /\ Cardinality(LoginsAsked(c)) <= Sent(c)
  BY <1>2, <1>3 DEF Sent
<1>5. Wanted(c) \in Nat
  BY <1>2 DEF Wanted
<1> QED
  BY <1>2, <1>3, <1>4, <1>5

\* Nothing new was sent that was not wanted.
LEMMA StillCounted ==
    ASSUME ServerTyped, PagesTyped, ServerTyped', PagesTyped', NEW c \in Clients, ResendsCounted(c),
           NEW k \in Nat, Sent(c)' = Sent(c) + k, Wanted(c)' = Wanted(c) + k,
           RefusalsSeen(c) \subseteq RefusalsSeen(c)'
    PROVE  ResendsCounted(c)'
<1>1. /\ Sent(c) \in Nat /\ Wanted(c) \in Nat /\ Cardinality(RefusalsSeen(c)) \in Nat
  BY SentIs
<1>2. IsFiniteSet(RefusalsSeen(c)')
  <2>1. RefusalsSeen(c)' \subseteq DOMAIN answers' /\ answers' \in Seq(AnswerSet)
    BY DEF RefusalsSeen, Refusals, Acks, AnswersTo, ServerTyped
  <2>2. PICK n \in Nat : RefusalsSeen(c)' \subseteq 1 .. n
    BY <2>1
  <2> QED
    BY <2>2, Finite
<1>3. /\ Cardinality(RefusalsSeen(c)') \in Nat
      /\ Cardinality(RefusalsSeen(c)) <= Cardinality(RefusalsSeen(c)')
  BY <1>2, AtMost
<1> QED
  BY <1>1, <1>3 DEF ResendsCounted

LEMMA OthersKeep ==
    ASSUME ServerInv, PageInv, PagesTyped', NEW c \in Clients, Acts(c), NEW d \in Clients, d # c
    PROVE  FormsGone(d)' /\ Bounds(d)' /\ ResendsCounted(d)'
<1>0. FormsGone(d) /\ Bounds(d) /\ ResendsCounted(d) /\ ServerTyped /\ PagesTyped
  BY DEF PageInv, ServerInv
<1>1. page'[d] = page[d] /\ user'[d] = user[d] /\ next'[d] = next[d]
  BY DEF Acts, Only
<1>2. /\ answers' = answers /\ Acks(d)' = Acks(d) /\ Refusals(d)' = Refusals(d)
      /\ LoginsAsked(d)' = LoginsAsked(d)
      /\ \A h \in DOMAIN asked : asked'[h] = asked[h]
      /\ \A h \in DOMAIN asked' \ DOMAIN asked : asked'[h].client # d
  BY <1>0, ActsSets
<1>3. AcksSeen(d)' = AcksSeen(d) /\ RefusalsSeen(d)' = RefusalsSeen(d)
  BY <1>1, <1>2 DEF AcksSeen, Acks, RefusalsSeen
<1>4. FormsGone(d)'
  BY <1>0, <1>1, <1>2, <1>3 DEF FormsGone
<1>5. Bounds(d)'
  BY <1>0, <1>1, <1>2 DEF Bounds
<1>6. Sent(d)' = Sent(d) /\ Wanted(d)' = Wanted(d)
  BY <1>1, <1>2 DEF Sent, Wanted
<1>7. ResendsCounted(d)'
  BY <1>0, <1>1, <1>2, <1>3, <1>6 DEF ResendsCounted
<1> QED
  BY <1>4, <1>5, <1>7

LEMMA MovesKeep ==
    ASSUME ServerInv, PageInv, PagesTyped', NEW c \in Clients, Moves(c)
    PROVE  Acts(c) /\ FormsGone(c)' /\ Bounds(c)' /\ ResendsCounted(c)'
<1>0. FormsGone(c) /\ Bounds(c) /\ ResendsCounted(c) /\ ServerTyped /\ PagesTyped
  BY DEF PageInv, ServerInv
<1>t. page[c] \in Pages /\ user[c] \in Habits
  BY <1>0, PageIs
<1>1. Still /\ next' = next /\ Moved(c, page'[c], user'[c]) /\ Acts(c)
  BY DEF Moves, Still, Acts
<1>2. /\ LoginsAsked(c)' = LoginsAsked(c) /\ Acks(c)' = Acks(c) /\ Refusals(c)' = Refusals(c)
      /\ answers' = answers /\ asked' = asked
  BY <1>1, StillSame DEF Still
<1>3. AcksSeen(c)' = AcksSeen(c) /\ RefusalsSeen(c)' = RefusalsSeen(c)
  BY <1>1, <1>2 DEF AcksSeen, Acks, RefusalsSeen
<1>4. FormsGone(c)'
  BY <1>0, <1>1, <1>2, <1>3, <1>t DEF FormsGone, Moved, Pages
<1>5. Bounds(c)'
  BY <1>0, <1>1, <1>2, <1>t DEF Bounds, Moved, Like, Pages, Habits
<1>6. Sent(c)' = Sent(c) /\ Wanted(c)' = Wanted(c)
  BY <1>1, <1>2 DEF Sent, Wanted, Moved, Like
<1>7. ResendsCounted(c)'
  BY <1>0, <1>1, <1>2, <1>3, <1>6 DEF ResendsCounted
<1> QED
  BY <1>1, <1>4, <1>5, <1>7

\* What the page of c has not looked at is behind answer i, if i is the next.
LEMMA Hurries ==
    ASSUME ServerTyped, PagesTyped, NEW c \in Clients, NEW i \in DOMAIN answers, HasNext(c, i),
           answers' = answers, Acks(c)' = Acks(c), Refusals(c)' = Refusals(c)
    PROVE  /\ i \in Nat /\ next[c] \in Nat /\ next'[c] = i /\ next[c] < i /\ i <= Len(answers)
           /\ \A j \in DOMAIN answers : j < i /\ To(j).client = c => j <= next[c]
           /\ AcksSeen(c)' = IF answers[i].kind = "login_ack" THEN AcksSeen(c) \cup {i}
                                                              ELSE AcksSeen(c)
           /\ RefusalsSeen(c)' = IF i \in Refusals(c) THEN RefusalsSeen(c) \cup {i}
                                                      ELSE RefusalsSeen(c)
           /\ i \notin RefusalsSeen(c)
           /\ Unseen(c)' \subseteq Unseen(c)
           /\ Unseen(c)' = Unseen(c) \ {i}
<1>1. i \in Nat /\ next[c] \in Nat /\ i <= Len(answers) /\ DOMAIN answers \subseteq Nat
  BY Typing, PageIs
<1>2. /\ next'[c] = i /\ next[c] < i /\ To(i).client = c
      /\ \A j \in DOMAIN answers : next[c] < j /\ j < i => To(j).client # c
  BY DEF HasNext
<1>3. \A j \in DOMAIN answers : j < i /\ To(j).client = c => j <= next[c]
  BY <1>1, <1>2
<1>4. \A j \in Acks(c) : j \in DOMAIN answers /\ To(j).client = c /\ j \in Nat
  BY <1>1 DEF Acks, AnswersTo, To
<1>5. \A j \in Acks(c) : (j <= i <=> j <= next[c] \/ j = i) /\ (j > i <=> j > next[c] /\ j # i)
  BY <1>1, <1>2, <1>3, <1>4
<1>6. i \in Acks(c) <=> answers[i].kind = "login_ack"
  BY <1>2 DEF Acks, AnswersTo, To
<1>7. /\ AcksSeen(c)' = {j \in Acks(c) : j <= i} /\ AcksSeen(c) = {j \in Acks(c) : j <= next[c]}
      /\ RefusalsSeen(c)' = {j \in Refusals(c) : j <= i}
      /\ Unseen(c)' = {j \in Acks(c) : j > i}
  BY <1>2 DEF AcksSeen, Acks, RefusalsSeen, Unseen
<1>8. AcksSeen(c)' = IF answers[i].kind = "login_ack" THEN AcksSeen(c) \cup {i} ELSE AcksSeen(c)
  BY <1>5, <1>6, <1>7
<1>9. /\ RefusalsSeen(c)' = IF i \in Refusals(c) THEN RefusalsSeen(c) \cup {i} ELSE RefusalsSeen(c)
      /\ i \notin RefusalsSeen(c)
  BY <1>1, <1>2, <1>5, <1>7 DEF RefusalsSeen, Refusals
<1>10. Unseen(c)' = Unseen(c) \ {i}
  BY <1>5, <1>7 DEF Unseen
<1> QED
  BY <1>1, <1>2, <1>3, <1>8, <1>9, <1>10

LEMMA HearsKeep ==
    ASSUME ServerInv, PageInv, ServerTyped', PagesTyped', NEW c \in Clients, NEW i \in DOMAIN answers,
           Hears(c, i)
    PROVE  Acts(c) /\ FormsGone(c)' /\ Bounds(c)' /\ ResendsCounted(c)'
<1>0. /\ FormsGone(c) /\ Bounds(c) /\ ResendsCounted(c) /\ ServerTyped /\ PagesTyped
      /\ AnswersFit /\ ShownAfterAck
  BY DEF PageInv, ServerInv
<1>1. Still /\ Acts(c) /\ HasNext(c, i) /\ answers[i].kind # "login_ack" /\ user'[c] = user[c]
  BY DEF Hears, Acts, SameUser
<1>2. /\ LoginsAsked(c)' = LoginsAsked(c) /\ Acks(c)' = Acks(c) /\ Refusals(c)' = Refusals(c)
      /\ answers' = answers /\ asked' = asked
  BY <1>1, StillSame DEF Still
<1>3. /\ AcksSeen(c)' = AcksSeen(c) /\ RefusalsSeen(c) \subseteq RefusalsSeen(c)'
      /\ next'[c] = i /\ i <= Len(answers) /\ i \in Nat
      /\ \A j \in DOMAIN answers : j < i /\ To(j).client = c => j <= next[c]
  BY <1>0, <1>1, <1>2, Hurries
<1>4. answers[i].kind \in {"notka", "save_ack"} => page[c].root = "gone"
  <2>0. To(i).client = c /\ answers[i].to \in DOMAIN asked
    BY <1>0, <1>1 DEF HasNext, ServerTyped
  <2>1. CASE answers[i].kind = "notka"
    <3>1. PICK j \in 1 .. i-1 : Opens(j, answers[i].to)
      BY <1>0, <2>1 DEF ShownAfterAck
    <3>2. j \in DOMAIN answers /\ j < i
      BY <1>0, <1>3, <3>1, Typing
    <3>3. /\ answers[j].to = answers[i].to /\ answers[j].kind = "login_ack"
          /\ answers[j].value = "LOGGED_IN"
      BY <3>1 DEF Opens
    <3>4. To(j).client = c
      BY <2>0, <3>3 DEF To
    <3>5. j \in AcksSeen(c)
      BY <1>3, <3>2, <3>3, <3>4 DEF AcksSeen, AnswersTo, To
    <3> QED
      BY <1>0, <3>3, <3>5 DEF FormsGone
  <2>2. CASE answers[i].kind = "save_ack"
    <3>1. To(i).body.kind = "save"
      BY <1>0, <2>2 DEF AnswersFit
    <3> QED
      BY <1>0, <2>0, <3>1 DEF FormsGone, To
  <2> QED
    BY <2>1, <2>2
<1>5. FormsGone(c)'
  BY <1>0, <1>2, <1>3, <1>4 DEF FormsGone, Hears
<1>6. Bounds(c)'
  BY <1>0, <1>1, <1>2, <1>3 DEF Bounds, Hears, Like
<1>7. Sent(c)' = Sent(c) /\ Wanted(c)' = Wanted(c)
  BY <1>1, <1>2 DEF Sent, Wanted, Hears, Like
<1>8. ResendsCounted(c)'
  <2>1. 0 \in Nat /\ Sent(c)' = Sent(c) + 0 /\ Wanted(c)' = Wanted(c) + 0
    BY <1>0, <1>7, SentIs
  <2> QED
    BY <1>0, <1>3, <2>1, StillCounted
<1> QED
  BY <1>1, <1>5, <1>6, <1>8

LEMMA SavesKeep ==
    ASSUME ServerInv, PageInv, ServerTyped', PagesTyped', NEW c \in Clients, Saves(c)
    PROVE  Acts(c) /\ FormsGone(c)' /\ Bounds(c)' /\ ResendsCounted(c)'
<1>0. FormsGone(c) /\ Bounds(c) /\ ResendsCounted(c) /\ ServerTyped /\ PagesTyped
  BY DEF PageInv, ServerInv
<1>1. Acts(c) /\ next'[c] = next[c]
  BY DEF Saves, Acts, Sends, SameNext
<1>2. LoginsAsked(c)' = LoginsAsked(c)
  <2>1. CASE Still
    BY <2>1, StillSame
  <2>2. CASE Sends(c, SaveBody(c))
    <3>1. SaveBody(c).kind # "login"
      BY DEF SaveBody
    <3> QED
      BY <1>0, <2>2, <3>1, SendsLogin
  <2> QED
    BY <2>1, <2>2 DEF Saves
<1>3. /\ Acks(c)' = Acks(c) /\ Refusals(c)' = Refusals(c) /\ answers' = answers
  BY <1>0, <1>1, ActsSets
<1>4. AcksSeen(c)' = AcksSeen(c) /\ RefusalsSeen(c)' = RefusalsSeen(c)
  BY <1>1, <1>3 DEF AcksSeen, Acks, RefusalsSeen
<1>5. page[c].root = "gone"
  BY <1>0 DEF Saves, FormsGone
<1>6. FormsGone(c)'
  BY <1>0, <1>3, <1>4, <1>5 DEF FormsGone, Saves, SameScreen
<1>7. Bounds(c)'
  <2>1. page[c] \in Pages /\ user[c] \in Habits /\ page'[c] \in Pages /\ user'[c] \in Habits
    BY <1>0 DEF PagesTyped
  <2>2. page'[c].blurs <= user'[c].blurs
    BY <1>0, <2>1 DEF Bounds, Saves, Pages, Habits
  <2> QED
    BY <1>0, <1>1, <1>3, <2>2 DEF Bounds, Saves, Like
<1>8. Sent(c)' = Sent(c) /\ Wanted(c)' = Wanted(c)
  BY <1>2 DEF Sent, Wanted, Saves, Like
<1>9. ResendsCounted(c)'
  BY <1>0, <1>4, <1>8 DEF ResendsCounted
<1> QED
  BY <1>1, <1>6, <1>7, <1>9

\* A login that is sent is one more, and no save.
LEMMA SendsOne ==
    ASSUME ServerTyped, PagesTyped, NEW c \in Clients, NEW body, Sends(c, body), body.kind # "save"
    PROVE  /\ Extended(c)
           /\ \A h \in DOMAIN asked' : asked'[h].client = c /\ asked'[h].body.kind = "save" =>
                 h \in DOMAIN asked /\ asked[h].client = c /\ asked[h].body.kind = "save"
           /\ Cardinality(LoginsAsked(c)') = Cardinality(LoginsAsked(c))
                + (IF body.kind = "login" THEN 1 ELSE 0)
<1>1. Extended(c)
  BY DEF Sends
<1>2. \A h \in DOMAIN asked' \ DOMAIN asked : asked'[h].body.kind # "save"
  BY DEF Sends
<1>3. /\ Len(asked') \notin DOMAIN asked /\ LoginsAsked(c) \subseteq DOMAIN asked
      /\ LoginsAsked(c)' = IF body.kind = "login"
                           THEN LoginsAsked(c) \cup {Len(asked')}
                           ELSE LoginsAsked(c)
  BY SendsLogin DEF LoginsAsked
<1>4. IsFiniteSet(LoginsAsked(c)) /\ Cardinality(LoginsAsked(c)) \in Nat
  BY SetsAre, SentIs
<1>5. Cardinality(LoginsAsked(c)') = Cardinality(LoginsAsked(c))
        + (IF body.kind = "login" THEN 1 ELSE 0)
  BY <1>3, <1>4, OneMore
<1> QED
  BY <1>1, <1>2, <1>5 DEF Extended

LEMMA PutsKeep ==
    ASSUME ServerInv, PageInv, ServerTyped', PagesTyped', NEW c \in Clients,
           NEW i \in DOMAIN page[c].waiting, Puts(c, i)
    PROVE  Acts(c) /\ FormsGone(c)' /\ Bounds(c)' /\ ResendsCounted(c)'
<1>0. FormsGone(c) /\ Bounds(c) /\ ResendsCounted(c) /\ ServerTyped /\ PagesTyped
  BY DEF PageInv, ServerInv
<1>1. /\ next'[c] = next[c] /\ user'[c] = user[c] /\ Sends(c, page[c].waiting[i])
      /\ Len(page'[c].waiting) = Len(page[c].waiting) - 1
  BY DEF Puts, SameNext, SameUser
<1>2. page[c].waiting[i].kind = "login"
  <2>1. page[c].waiting \in Seq(Logins)
    BY <1>0, PageIs DEF Pages
  <2>2. page[c].waiting[i] \in Logins
    BY <2>1
  <2> QED
    BY <2>2 DEF Logins
<1>3. /\ Extended(c)
      /\ \A h \in DOMAIN asked' : asked'[h].client = c /\ asked'[h].body.kind = "save" =>
            h \in DOMAIN asked /\ asked[h].client = c /\ asked[h].body.kind = "save"
      /\ Cardinality(LoginsAsked(c)') = Cardinality(LoginsAsked(c)) + 1
  BY <1>0, <1>1, <1>2, SendsOne
<1>4. Acts(c)
  BY <1>3 DEF Acts, Puts
<1>5. /\ Acks(c)' = Acks(c) /\ Refusals(c)' = Refusals(c) /\ answers' = answers
  BY <1>0, <1>4, ActsSets
<1>6. AcksSeen(c)' = AcksSeen(c) /\ RefusalsSeen(c)' = RefusalsSeen(c)
  BY <1>1, <1>5 DEF AcksSeen, Acks, RefusalsSeen
<1>7. FormsGone(c)'
  BY <1>0, <1>3, <1>5, <1>6 DEF FormsGone, Puts, SameScreen
<1>8. Bounds(c)'
  <2>1. Len(page[c].waiting) \in Nat /\ user[c].submits \in Nat
    BY <1>0, SentIs, PageIs DEF Habits
  <2> QED
    BY <1>0, <1>1, <1>5, <2>1 DEF Bounds, Puts
<1>9. Sent(c)' = Sent(c) /\ Wanted(c)' = Wanted(c)
  <2>1. Len(page[c].waiting) \in Nat /\ Cardinality(LoginsAsked(c)) \in Nat
    BY <1>0, SentIs
  <2>2. page'[c].autologin = page[c].autologin /\ page'[c].link = page[c].link
    BY DEF Puts
  <2> QED
    BY <1>1, <1>3, <2>1, <2>2 DEF Sent, Wanted
<1>10. ResendsCounted(c)'
  BY <1>0, <1>6, <1>9 DEF ResendsCounted
<1> QED
  BY <1>4, <1>7, <1>8, <1>10

LEMMA LinksKeep ==
    ASSUME ServerInv, PageInv, ServerTyped', PagesTyped', NEW c \in Clients, Connects(c)
    PROVE  Acts(c) /\ FormsGone(c)' /\ Bounds(c)' /\ ResendsCounted(c)'
<1>0. FormsGone(c) /\ Bounds(c) /\ ResendsCounted(c) /\ ServerTyped /\ PagesTyped
  BY DEF PageInv, ServerInv
<1>1. /\ next'[c] = next[c] /\ user'[c] = user[c]
      /\ page'[c].waiting = page[c].waiting /\ page'[c].link = page[c].link /\ ~page'[c].autologin
  BY DEF Connects, SameNext, SameUser
<1>2. PICK body : /\ Sends(c, body) /\ body.kind # "save"
                  /\ body.kind = "login" <=> page[c].autologin
  <2>1. CASE page[c].autologin
    <3>1. /\ LoginBody(page[c].link.login, page[c].link.pass).kind = "login"
          /\ Sends(c, LoginBody(page[c].link.login, page[c].link.pass))
      BY <2>1 DEF Connects, LoginBody
    <3> QED
      BY <2>1, <3>1
  <2>2. CASE ~page[c].autologin
    <3>1. [kind |-> "syn"].kind = "syn" /\ Sends(c, [kind |-> "syn"])
      BY <2>2 DEF Connects
    <3> QED
      BY <2>2, <3>1
  <2> QED
    BY <2>1, <2>2
<1>3. /\ Extended(c)
      /\ \A h \in DOMAIN asked' : asked'[h].client = c /\ asked'[h].body.kind = "save" =>
            h \in DOMAIN asked /\ asked[h].client = c /\ asked[h].body.kind = "save"
      /\ Cardinality(LoginsAsked(c)') = Cardinality(LoginsAsked(c))
           + (IF page[c].autologin THEN 1 ELSE 0)
  BY <1>0, <1>2, SendsOne
<1>4. Acts(c)
  BY <1>3 DEF Acts, Connects
<1>5. /\ Acks(c)' = Acks(c) /\ Refusals(c)' = Refusals(c) /\ answers' = answers
  BY <1>0, <1>4, ActsSets
<1>6. AcksSeen(c)' = AcksSeen(c) /\ RefusalsSeen(c)' = RefusalsSeen(c)
  BY <1>1, <1>5 DEF AcksSeen, Acks, RefusalsSeen
<1>7. FormsGone(c)'
  BY <1>0, <1>3, <1>5, <1>6 DEF FormsGone, Connects, SameScreen
<1>8. Bounds(c)'
  BY <1>0, <1>1, <1>5 DEF Bounds, Connects
<1>9. Sent(c)' = Sent(c) /\ Wanted(c)' = Wanted(c)
  <2>1. Len(page[c].waiting) \in Nat /\ Cardinality(LoginsAsked(c)) \in Nat
    BY <1>0, SentIs
  <2> QED
    BY <1>1, <1>3, <2>1 DEF Sent, Wanted
<1>10. ResendsCounted(c)'
  BY <1>0, <1>6, <1>9 DEF ResendsCounted
<1> QED
  BY <1>4, <1>7, <1>8, <1>10

LEMMA SubmitsKeep ==
    ASSUME ServerInv, PageInv, ServerTyped', PagesTyped', NEW c \in Clients, Submits(c)
    PROVE  Acts(c) /\ FormsGone(c)' /\ Bounds(c)' /\ ResendsCounted(c)'
<1>0. FormsGone(c) /\ Bounds(c) /\ ResendsCounted(c) /\ ServerTyped /\ PagesTyped
  BY DEF PageInv, ServerInv
<1>t. /\ Len(page[c].waiting) \in Nat /\ user[c].submits \in Nat
      /\ Cardinality(LoginsAsked(c)) \in Nat /\ page[c].waiting \in Seq(Logins)
  BY <1>0, SentIs, PageIs DEF Habits, Pages
<1>1. /\ next'[c] = next[c] /\ user'[c].submits = user[c].submits + 1
      /\ page'[c].link = page[c].link /\ page'[c].autologin = page[c].autologin
  BY DEF Submits, SameNext
<1>2. \/ /\ Sends(c, LoginBody(page[c].form.login, page[c].form.pass))
         /\ page'[c].waiting = page[c].waiting
      \/ /\ Still
         /\ Len(page'[c].waiting) = Len(page[c].waiting) + 1
  BY <1>t DEF Submits
<1>3. /\ Still \/ Extended(c)
      /\ \A h \in DOMAIN asked' : asked'[h].client = c /\ asked'[h].body.kind = "save" =>
            h \in DOMAIN asked /\ asked[h].client = c /\ asked[h].body.kind = "save"
      /\ Cardinality(LoginsAsked(c)') + Len(page'[c].waiting)
           = Cardinality(LoginsAsked(c)) + Len(page[c].waiting) + 1
  <2>1. CASE Still /\ Len(page'[c].waiting) = Len(page[c].waiting) + 1
    <3>1. LoginsAsked(c)' = LoginsAsked(c) /\ asked' = asked
      BY <2>1, StillSame DEF Still
    <3> QED
      BY <2>1, <3>1, <1>t
  <2>2. CASE /\ Sends(c, LoginBody(page[c].form.login, page[c].form.pass))
             /\ page'[c].waiting = page[c].waiting
    <3>1. LoginBody(page[c].form.login, page[c].form.pass).kind = "login"
      BY DEF LoginBody
    <3>2. PICK body : Sends(c, body) /\ body.kind = "login"
      BY <2>2, <3>1
    <3>3. /\ Extended(c)
          /\ \A h \in DOMAIN asked' : asked'[h].client = c /\ asked'[h].body.kind = "save" =>
                h \in DOMAIN asked /\ asked[h].client = c /\ asked[h].body.kind = "save"
          /\ Cardinality(LoginsAsked(c)') = Cardinality(LoginsAsked(c)) + 1
      BY <1>0, <3>2, SendsOne
    <3> QED
      BY <2>2, <3>3, <1>t
  <2> QED
    BY <1>2, <2>1, <2>2
<1>4. Acts(c)
  BY <1>3 DEF Acts, Submits
<1>5. /\ Acks(c)' = Acks(c) /\ Refusals(c)' = Refusals(c) /\ answers' = answers
  BY <1>0, <1>4, ActsSets
<1>6. AcksSeen(c)' = AcksSeen(c) /\ RefusalsSeen(c)' = RefusalsSeen(c)
  BY <1>1, <1>5 DEF AcksSeen, Acks, RefusalsSeen
<1>7. FormsGone(c)'
  BY <1>0, <1>3, <1>5, <1>6 DEF FormsGone, Submits, SameScreen
<1>8. Bounds(c)'
  <2>1. Len(page'[c].waiting) <= user'[c].submits
    BY <1>0, <1>1, <1>2, <1>t DEF Bounds
  <2> QED
    BY <1>0, <1>1, <1>5, <2>1 DEF Bounds, Submits
<1>9. Sent(c)' = Sent(c) + 1 /\ Wanted(c)' = Wanted(c) + 1
  <2>1. Wanted(c)' = Wanted(c) + 1
    BY <1>1, <1>t DEF Wanted
  <2>2. PICK s, t : s = Cardinality(LoginsAsked(c)') + Len(page'[c].waiting)
                    /\ t = Cardinality(LoginsAsked(c)) + Len(page[c].waiting)
    OBVIOUS
  <2>3. s = t + 1 /\ t \in Nat
    BY <1>3, <1>t, <2>2
  <2>4. /\ Sent(c)' = s + (IF page[c].autologin THEN 1 ELSE 0)
        /\ Sent(c) = t + (IF page[c].autologin THEN 1 ELSE 0)
    BY <1>1, <2>2 DEF Sent
  <2> QED
    BY <2>1, <2>3, <2>4
<1>10. ResendsCounted(c)'
  BY <1>0, <1>6, <1>9, StillCounted
<1> QED
  BY <1>4, <1>7, <1>8, <1>10

\* The page resends for a refusal that was not seen, and there are at most
\* half as many of those as logins.
LEMMA ResendIsCounted ==
    ASSUME ServerInv, PageInv, ServerTyped', PagesTyped', NEW c \in Clients,
           NEW i \in Refusals(c), i \notin RefusalsSeen(c),
           RefusalsSeen(c)' = RefusalsSeen(c) \cup {i},
           Sent(c)' = Sent(c) + 1, Wanted(c)' = Wanted(c)
    PROVE  ResendsCounted(c)'
<1>0. ResendsCounted(c) /\ ServerTyped /\ PagesTyped /\ AcksCounted
  BY DEF PageInv, ServerInv
<1>1. /\ Sent(c) \in Nat /\ Wanted(c) \in Nat
      /\ Cardinality(RefusalsSeen(c)) \in Nat /\ Cardinality(LoginsAsked(c)) \in Nat
      /\ Cardinality(LoginsAsked(c)) <= Sent(c)
  BY <1>0, SentIs
<1>2. /\ IsFiniteSet(RefusalsSeen(c)) /\ IsFiniteSet(Refusals(c)) /\ IsFiniteSet(LoginsAsked(c))
      /\ RefusalsSeen(c) \subseteq Refusals(c) /\ Served(c) \subseteq LoginsAsked(c)
      /\ IsFiniteSet(Acks(c))
  BY <1>0, SetsAre
<1>3. Cardinality(RefusalsSeen(c)') = Cardinality(RefusalsSeen(c)) + 1
  BY <1>2, OneMore
<1>4. Cardinality(RefusalsSeen(c)') <= Cardinality(Refusals(c)) /\ Cardinality(Refusals(c)) \in Nat
  BY <1>2, AtMost
<1>5. /\ Cardinality(Served(c)) <= Cardinality(LoginsAsked(c)) /\ Cardinality(Served(c)) \in Nat
      /\ Cardinality(Acks(c)) \in Nat
  BY <1>2, AtMost, FS_CardinalityType
<1>6. /\ Cardinality(Acks(c)) <= Cardinality(Served(c))
      /\ 2 * Cardinality(Refusals(c)) <= Cardinality(Acks(c)) + 1
  <2>1. /\ Cardinality(Acks(c)) <= Cardinality(Served(c))
        /\ 2 * Cardinality(Refusals(c))
             <= Cardinality(Acks(c)) + (IF state[c] = "NO_SUCH_USER" THEN 1 ELSE 0)
    BY <1>0 DEF AcksCounted
  <2> QED
    BY <1>4, <1>5, <2>1
<1>7. Sent(c) <= Wanted(c) + Cardinality(RefusalsSeen(c))
  BY <1>0 DEF ResendsCounted
<1>8. Sent(c) + 1 <= 2 * Wanted(c)
  BY <1>1, <1>3, <1>4, <1>5, <1>6, <1>7
<1> QED
  BY <1>1, <1>3, <1>7, <1>8 DEF ResendsCounted

LEMMA HeedsKeep ==
    ASSUME ServerInv, PageInv, ServerTyped', PagesTyped', NEW c \in Clients, NEW i \in DOMAIN answers,
           Heeds(c, i)
    PROVE  Acts(c) /\ FormsGone(c)' /\ Bounds(c)' /\ ResendsCounted(c)'
<1>0. FormsGone(c) /\ Bounds(c) /\ ResendsCounted(c) /\ ServerTyped /\ PagesTyped
  BY DEF PageInv, ServerInv
<1>t. /\ Len(page[c].waiting) \in Nat /\ Cardinality(LoginsAsked(c)) \in Nat /\ page[c] \in Pages
  BY <1>0, SentIs, PageIs
<1>1. /\ user'[c] = user[c] /\ HasNext(c, i) /\ answers[i].kind = "login_ack"
      /\ page'[c].waiting = page[c].waiting
      /\ page'[c].link = page[c].link /\ page'[c].autologin = page[c].autologin
      /\ page'[c].ws = page[c].ws /\ page'[c].blurs = page[c].blurs
  BY DEF Heeds, SameUser
<1> DEFINE resend == answers[i].value = "NO_SUCH_USER" /\ ~Still
           k == IF resend THEN 1 ELSE 0
<1>2. /\ Still \/ Extended(c)
      /\ \A h \in DOMAIN asked' : asked'[h].client = c /\ asked'[h].body.kind = "save" =>
            h \in DOMAIN asked /\ asked[h].client = c /\ asked[h].body.kind = "save"
      /\ Cardinality(LoginsAsked(c)') = Cardinality(LoginsAsked(c)) + k
  <2>1. CASE Still
    <3>1. LoginsAsked(c)' = LoginsAsked(c) /\ asked' = asked
      BY <2>1, StillSame DEF Still
    <3> QED
      BY <2>1, <3>1, <1>t
  <2>2. CASE ~Still
    <3>1. /\ Sends(c, LoginBody(page[c].login_, page[c].password_))
          /\ answers[i].value = "NO_SUCH_USER"
      BY <2>2 DEF Heeds
    <3>2. LoginBody(page[c].login_, page[c].password_).kind = "login"
      BY DEF LoginBody
    <3>3. PICK body : Sends(c, body) /\ body.kind = "login"
      BY <3>1, <3>2
    <3>4. /\ Extended(c)
          /\ \A h \in DOMAIN asked' : asked'[h].client = c /\ asked'[h].body.kind = "save" =>
                h \in DOMAIN asked /\ asked[h].client = c /\ asked[h].body.kind = "save"
          /\ Cardinality(LoginsAsked(c)') = Cardinality(LoginsAsked(c)) + 1
      BY <1>0, <3>3, SendsOne
    <3> QED
      BY <2>2, <3>1, <3>4
  <2> QED
    BY <2>1, <2>2
<1> HIDE DEF resend
<1>4. Acts(c)
  BY <1>2 DEF Acts, Heeds
<1>5. /\ Acks(c)' = Acks(c) /\ Refusals(c)' = Refusals(c) /\ answers' = answers
  BY <1>0, <1>4, ActsSets
<1>6. /\ AcksSeen(c)' = AcksSeen(c) \cup {i}
      /\ RefusalsSeen(c)' = IF i \in Refusals(c) THEN RefusalsSeen(c) \cup {i}
                                                 ELSE RefusalsSeen(c)
      /\ i \notin RefusalsSeen(c) /\ next'[c] = i /\ i <= Len(answers)
  BY <1>0, <1>1, <1>5, Hurries
<1>7. FormsGone(c)'
  <2>1. \/ page'[c].root = "gone" /\ page'[c].editor = TRUE
        \/ /\ answers[i].value # "LOGGED_IN" /\ page'[c].editor = page[c].editor
           /\ page'[c].root = "gone" <=> page[c].root = "gone"
    BY <1>t DEF Heeds, SameScreen, Pages
  <2>2. CASE page'[c].root = "gone" /\ page'[c].editor = TRUE
    BY <2>2 DEF FormsGone
  <2>3. CASE /\ answers[i].value # "LOGGED_IN" /\ page'[c].editor = page[c].editor
             /\ page'[c].root = "gone" <=> page[c].root = "gone"
    <3>1. /\ page'[c].editor = (page'[c].root = "gone")
          /\ page'[c].blurs > 0 => page'[c].root = "gone"
      BY <1>0, <1>1, <2>3 DEF FormsGone
    <3>2. \A h \in DOMAIN asked' :
             asked'[h].client = c /\ asked'[h].body.kind = "save" => page'[c].root = "gone"
      BY <1>0, <1>2, <2>3 DEF FormsGone
    <3>3. \A j \in AcksSeen(c)' : answers'[j].value = "LOGGED_IN" => page'[c].root = "gone"
      BY <1>0, <1>5, <1>6, <2>3 DEF FormsGone
    <3> QED
      BY <3>1, <3>2, <3>3 DEF FormsGone
  <2> QED
    BY <2>1, <2>2, <2>3
<1>8. Bounds(c)'
  BY <1>0, <1>1, <1>5, <1>6 DEF Bounds
<1>9. Sent(c)' = Sent(c) + k /\ Wanted(c)' = Wanted(c)
  BY <1>1, <1>2, <1>t DEF Sent, Wanted
<1>10. Sent(c) \in Nat /\ Wanted(c) \in Nat
  BY <1>0, SentIs
<1>11. ResendsCounted(c)'
  <2>1. CASE ~resend
    <3>1. 0 \in Nat /\ Sent(c)' = Sent(c) + 0 /\ Wanted(c)' = Wanted(c) + 0
      BY <1>9, <1>10, <2>1
    <3> QED
      BY <1>0, <1>6, <3>1, StillCounted
  <2>2. CASE resend
    <3>1. i \in Refusals(c)
      <4>1. answers[i].value = "NO_SUCH_USER" /\ To(i).client = c
        BY <1>1, <2>2 DEF resend, HasNext
      <4> QED
        BY <1>1, <4>1 DEF Refusals, Acks, AnswersTo, To
    <3>2. /\ Sent(c)' = Sent(c) + 1 /\ RefusalsSeen(c)' = RefusalsSeen(c) \cup {i}
          /\ i \notin RefusalsSeen(c)
      BY <1>6, <1>9, <2>2, <3>1
    <3> QED
      BY <1>9, <3>1, <3>2, ResendIsCounted
  <2> QED
    BY <2>1, <2>2
<1> QED
  BY <1>4, <1>7, <1>8, <1>11

LEMMA AckKeepsPage ==
    ASSUME ServerInv, PageInv, ServerTyped', PagesTyped', UNCHANGED <<page, next, user>>,
           NEW h \in DOMAIN asked, NEW v \in Verdicts, Acknowledges(h, v), NEW d \in Clients
    PROVE  FormsGone(d)' /\ Bounds(d)' /\ ResendsCounted(d)'
<1>0. FormsGone(d) /\ Bounds(d) /\ ResendsCounted(d) /\ ServerTyped /\ PagesTyped
  BY DEF PageInv, ServerInv
<1>n. PICK n \in Nat : n = Len(answers) + 1
  BY <1>0, Typing
<1>1. /\ \A i \in DOMAIN answers : answers'[i] = answers[i]
      /\ Len(answers') = n /\ Len(answers) \in Nat /\ asked' = asked
  <2>1. Answered(n, h, v)
    BY <1>0, <1>n, AckAnswers
  <2> QED
    BY <2>1 DEF Answered
<1>2. /\ LoginsAsked(d)' = LoginsAsked(d)
      /\ Acks(d)' = Acks(d) \/ Acks(d)' = Acks(d) \cup {n}
      /\ Refusals(d) \subseteq Refusals(d)' /\ Acks(d) \subseteq DOMAIN answers
  <2>1. Acks(d) \subseteq DOMAIN answers
    BY DEF Acks, AnswersTo
  <2> QED
    BY <1>0, <1>n, <2>1, AckSets
<1>3. next'[d] = next[d] /\ next[d] <= Len(answers) /\ next[d] \in Nat /\ ~(n <= next[d])
  BY <1>0, <1>n, <1>1, PageIs DEF Bounds
<1>4. AcksSeen(d)' = AcksSeen(d)
  BY <1>2, <1>3 DEF AcksSeen, Acks
<1>5. RefusalsSeen(d) \subseteq RefusalsSeen(d)'
  BY <1>2, <1>3 DEF RefusalsSeen
<1>6. FormsGone(d)'
  <2>1. AcksSeen(d) \subseteq DOMAIN answers
    BY DEF AcksSeen, AnswersTo
  <2> QED
    BY <1>0, <1>1, <1>4, <2>1 DEF FormsGone
<1>7. Bounds(d)'
  BY <1>0, <1>1, <1>3, <1>n DEF Bounds
<1>8. Sent(d)' = Sent(d) /\ Wanted(d)' = Wanted(d)
  BY <1>2 DEF Sent, Wanted
<1>9. ResendsCounted(d)'
  <2>1. 0 \in Nat /\ Sent(d)' = Sent(d) + 0 /\ Wanted(d)' = Wanted(d) + 0
    BY <1>0, <1>8, SentIs
  <2> QED
    BY <1>0, <1>5, <2>1, StillCounted
<1> QED
  BY <1>6, <1>7, <1>9

LEMMA SettlesKeepsPage ==
    ASSUME ServerInv, PageInv, UNCHANGED <<page, next, user>>,
           NEW h \in DOMAIN asked, Settles(h), NEW d \in Clients
    PROVE  FormsGone(d)' /\ Bounds(d)' /\ ResendsCounted(d)'
<1>0. FormsGone(d) /\ Bounds(d) /\ ResendsCounted(d) /\ ServerTyped /\ PagesTyped
  BY DEF PageInv, ServerInv
<1>1. /\ LoginsAsked(d)' = LoginsAsked(d) /\ Acks(d)' = Acks(d) /\ Refusals(d)' = Refusals(d)
      /\ Len(answers) \in Nat /\ Len(answers) <= Len(answers')
      /\ \A i \in DOMAIN answers : answers'[i] = answers[i]
  BY <1>0, SettleSets
<1>2. asked' = asked
  BY DEF Settles
<1>3. AcksSeen(d)' = AcksSeen(d) /\ RefusalsSeen(d)' = RefusalsSeen(d)
  BY <1>1 DEF AcksSeen, Acks, RefusalsSeen
<1>4. AcksSeen(d) \subseteq DOMAIN answers
  BY DEF AcksSeen, AnswersTo
<1>5. FormsGone(d)'
  BY <1>0, <1>1, <1>2, <1>3, <1>4 DEF FormsGone
<1>6. Bounds(d)'
  <2>1. next[d] \in Nat /\ Len(answers') \in Nat
    <3>1. answers' = answers \/ \E x : answers' = Append(answers, x)
      BY DEF Settles, Answers
    <3> QED
      BY <1>0, <3>1, PageIs DEF ServerTyped
  <2> QED
    BY <1>0, <1>1, <2>1 DEF Bounds
<1>7. Sent(d)' = Sent(d) /\ Wanted(d)' = Wanted(d)
  BY <1>1 DEF Sent, Wanted
<1>8. ResendsCounted(d)'
  BY <1>0, <1>3, <1>7 DEF ResendsCounted
<1> QED
  BY <1>5, <1>6, <1>8

LEMMA Initially ==
    ASSUME Init
    PROVE  ServerInv /\ PageInv
<1>0. /\ asked = <<>> /\ stage = <<>> /\ answers = <<>> /\ state = [c \in Clients |-> "INIT"]
      /\ users \in [Titles -> Passwords \cup {NoPassword}]
      /\ notkas \in [Titles -> Contents \cup {NoText}]
  BY DEF Init, Server!Init, Contents
<1>1. /\ page \in [Clients -> {NewPage(link) : link \in Links}]
      /\ next = [c \in Clients |-> 0]
      /\ user = [c \in Clients |-> [submits |-> 0, saves |-> 0, blurs |-> 0, edits |-> 0,
                                    wishes |-> {}, hurry |-> 0, hasty |-> FALSE]]
  BY DEF Init
<1>2. DOMAIN asked = {} /\ DOMAIN answers = {} /\ Len(answers) = 0
  BY <1>0
<1>3. ASSUME NEW c
      PROVE  /\ LoginsAsked(c) = {} /\ Served(c) = {} /\ Acks(c) = {} /\ Refusals(c) = {}
             /\ RefusalsSeen(c) = {} /\ AcksSeen(c) = {}
  BY <1>2 DEF LoginsAsked, Served, Acks, AnswersTo, Refusals, RefusalsSeen, AcksSeen
<1>4. Cardinality({}) = 0
  BY FS_EmptySet
<1>5. ServerInv
  <2>1. ServerTyped
    BY <1>0 DEF ServerTyped
  <2>2. AnswersFit /\ ShownAfterAck
    BY <1>2 DEF AnswersFit, ShownAfterAck
  <2>3. AcksCounted
    <3>1. ASSUME NEW c \in Clients
          PROVE  /\ Cardinality(Acks(c)) = 0 /\ Cardinality(Served(c)) = 0
                 /\ Cardinality(Refusals(c)) = 0 /\ state[c] = "INIT"
      BY <1>0, <1>3, <1>4
    <3> QED
      BY <3>1 DEF AcksCounted
  <2> QED
    BY <2>1, <2>2, <2>3 DEF ServerInv
<1>6. ASSUME NEW link \in Links, NEW p, p = NewPage(link)
      PROVE  /\ p \in Pages /\ p.waiting = <<>> /\ ~p.editor /\ p.root = "router" /\ p.blurs = 0
             /\ p.autologin = (p.link.login # EmptyTitle) /\ p.ws = "connecting"
             /\ p.loginState = "LOGIN"
  <2>1. link \in Forms /\ EmptyTitle \in Titles /\ EmptyPassword \in Passwords
    BY ClientAssumption DEF Forms
  <2>2. DefaultText \in Contents /\ <<>> \in Seq(Logins)
    BY DEF Contents
  <2> QED
    BY <1>6, <2>1, <2>2, Blanks DEF NewPage, Pages, Screens
<1>7. PagesTyped
  <2>1. [submits |-> 0, saves |-> 0, blurs |-> 0, edits |-> 0, wishes |-> {},
        hurry |-> 0, hasty |-> FALSE] \in Habits
    BY DEF Habits
  <2>2. \A c \in Clients : page[c] \in Pages
    BY <1>1, <1>6
  <2>3. page \in [Clients -> Pages]
    BY <1>1, <2>2
  <2>4. user \in [Clients -> Habits]
    BY <1>1, <2>1
  <2> QED
    BY <1>1, <2>3, <2>4 DEF PagesTyped
<1>8. ASSUME NEW c \in Clients
      PROVE  FormsGone(c) /\ Bounds(c) /\ ResendsCounted(c)
  <2>1. PICK link \in Links : page[c] = NewPage(link)
    BY <1>1
  <2>2. /\ page[c].waiting = <<>> /\ ~page[c].editor /\ page[c].root = "router"
        /\ page[c].blurs = 0 /\ page[c].autologin = (page[c].link.login # EmptyTitle)
        /\ page[c].ws = "connecting" /\ page[c] \in Pages
    BY <1>6, <2>1
  <2>3. user[c].submits = 0 /\ user[c].blurs = 0 /\ next[c] = 0 /\ Len(<<>>) = 0
    BY <1>1
  <2>4. FormsGone(c)
    BY <1>2, <1>3, <2>2 DEF FormsGone, Pages
  <2>5. Bounds(c)
    BY <1>2, <2>2, <2>3 DEF Bounds
  <2>6. Sent(c) = Wanted(c) /\ Wanted(c) \in {0, 1}
    <3>1. Cardinality(LoginsAsked(c)) = 0 /\ Len(page[c].waiting) = 0
      BY <1>3, <1>4, <2>2, <2>3
    <3>2. Sent(c) = IF page[c].autologin THEN 1 ELSE 0
      BY <3>1 DEF Sent
    <3>3. Wanted(c) = IF page[c].link.login = EmptyTitle THEN 0 ELSE 1
      BY <2>3 DEF Wanted
    <3>4. page[c].autologin <=> page[c].link.login # EmptyTitle
      BY <2>2
    <3> QED
      BY <3>2, <3>3, <3>4
  <2>7. ResendsCounted(c)
    BY <1>3, <1>4, <2>6 DEF ResendsCounted
  <2> QED
    BY <2>4, <2>5, <2>7
<1> QED
  BY <1>5, <1>7, <1>8 DEF PageInv

\* A step of the page of c, or its user.
Steps(c) ==
    \/ Moves(c) \/ Saves(c) \/ Connects(c) \/ Submits(c)
    \/ \E i \in DOMAIN page[c].waiting : Puts(c, i)
    \/ \E i \in DOMAIN answers : Hears(c, i) \/ Heeds(c, i)

LEMMA Stepping ==
    ASSUME ServerInv, PageInv, NEW c \in Clients, User(c) \/ Page(c)
    PROVE  Steps(c) /\ PagesTyped'
<1>0. ServerTyped /\ PagesTyped
  BY DEF ServerInv, PageInv
<1>1. CASE \/ \E t \in Titles : handleChange(c, "login", t)
           \/ \E w \in Passwords : handleChange(c, "pass", w)
           \/ handleRegisterClick(c) \/ handleLoginNowClick(c)
           \/ \E x \in Texts : Edit(c, x)
           \/ handleBlur(c)
           \/ OnClose(c)
  BY <1>0, <1>1, UserMoves DEF Steps
<1>2. CASE Save(c) \/ BlurTimer(c)
  BY <1>0, <1>2, Saving DEF Steps
<1>3. CASE handleSubmit(c)
  BY <1>0, <1>3, Submitting DEF Steps
<1>4. CASE OnOpen(c)
  BY <1>0, <1>4, Opening DEF Steps
<1>5. CASE SendTimer(c)
  BY <1>0, <1>5, Putting DEF Steps
<1>6. ASSUME NEW i \in DOMAIN answers, rx_msg_login_ack(c, i)
      PROVE  Steps(c) /\ PagesTyped'
  BY <1>0, <1>6, Heeding DEF Steps
<1>7. ASSUME NEW i \in DOMAIN answers, rx_msg_notka(c, i) \/ rx_other(c, i)
      PROVE  Steps(c) /\ PagesTyped'
  BY <1>0, <1>7, Hearing DEF Steps
<1> QED
  BY <1>1, <1>2, <1>3, <1>4, <1>5, <1>6, <1>7 DEF User, Page

LEMMA StepsAct ==
    ASSUME NEW c \in Clients, Steps(c)
    PROVE  Acts(c)
<1>1. Moves(c) => Acts(c)
  BY DEF Moves, Acts, Still
<1>2. Saves(c) => Acts(c)
  BY DEF Saves, Acts, Sends
<1>3. Connects(c) => Acts(c)
  BY DEF Connects, Acts, Sends
<1>4. Submits(c) => Acts(c)
  BY DEF Submits, Acts, Sends
<1>5. \A i \in DOMAIN page[c].waiting : Puts(c, i) => Acts(c)
  BY DEF Puts, Acts, Sends
<1>6. \A i \in DOMAIN answers : Hears(c, i) \/ Heeds(c, i) => Acts(c)
  BY DEF Hears, Heeds, Acts, Sends
<1> QED
  BY <1>1, <1>2, <1>3, <1>4, <1>5, <1>6 DEF Steps

LEMMA StepsKeep ==
    ASSUME ServerInv, PageInv, NEW c \in Clients, Steps(c), PagesTyped'
    PROVE  ServerInv' /\ PageInv'
<1>1. Acts(c)
  BY StepsAct
<1>2. ServerInv' /\ ServerTyped'
  <2>1. ServerInv'
    BY <1>1, ActsKeepsServer
  <2> QED
    BY <2>1 DEF ServerInv
<1>3. FormsGone(c)' /\ Bounds(c)' /\ ResendsCounted(c)'
  BY <1>2, MovesKeep, SavesKeep, LinksKeep, SubmitsKeep, PutsKeep, HearsKeep, HeedsKeep DEF Steps
<1>4. ASSUME NEW d \in Clients
      PROVE  FormsGone(d)' /\ Bounds(d)' /\ ResendsCounted(d)'
  BY <1>1, <1>3, OthersKeep
<1> QED
  BY <1>2, <1>4 DEF PageInv

LEMMA ServingKeeps ==
    ASSUME ServerInv, PageInv, NEW h \in DOMAIN asked, Serve(h)
    PROVE  ServerInv' /\ PageInv'
<1>0. ServerTyped /\ ShownAfterAck /\ PagesTyped
  BY DEF ServerInv, PageInv
<1>1. page' = page /\ next' = next /\ user' = user
  BY DEF Serve
<1>2. PagesTyped'
  BY <1>0, <1>1 DEF PagesTyped
<1>3. CASE Settles(h)
  <2>1. ServerInv'
    BY <1>3, SettlesKeepsServer
  <2>2. \A d \in Clients : FormsGone(d)' /\ Bounds(d)' /\ ResendsCounted(d)'
    BY <1>1, <1>3, SettlesKeepsPage
  <2> QED
    BY <1>2, <2>1, <2>2 DEF PageInv
<1>4. ASSUME NEW v \in Verdicts, Acknowledges(h, v)
      PROVE  ServerInv' /\ PageInv'
  <2>1. ServerInv' /\ ServerTyped'
    BY <1>4, AckKeepsServer DEF ServerInv
  <2>2. \A d \in Clients : FormsGone(d)' /\ Bounds(d)' /\ ResendsCounted(d)'
    BY <1>1, <1>2, <1>4, <2>1, AckKeepsPage
  <2> QED
    BY <1>2, <2>1, <2>2 DEF PageInv
<1> QED
  BY <1>0, <1>3, <1>4, ServeForms

LEMMA StutterKeeps ==
    ASSUME ServerInv, PageInv, UNCHANGED vars
    PROVE  ServerInv' /\ PageInv'
<1>1. Still /\ page' = page /\ next' = next /\ user' = user
  BY DEF vars, serverVars, Still
<1>2. ServerInv'
  BY <1>1, StillKeepsServer
<1>3. PagesTyped'
  BY <1>1 DEF PageInv, PagesTyped
<1>4. ASSUME NEW c \in Clients
      PROVE  FormsGone(c)' /\ Bounds(c)' /\ ResendsCounted(c)'
  <2>0. FormsGone(c) /\ Bounds(c) /\ ResendsCounted(c)
    BY DEF PageInv
  <2>1. /\ AcksSeen(c)' = AcksSeen(c) /\ RefusalsSeen(c)' = RefusalsSeen(c)
        /\ LoginsAsked(c)' = LoginsAsked(c)
    BY <1>1, StillSame DEF AcksSeen, Acks, RefusalsSeen
  <2>2. FormsGone(c)' /\ Bounds(c)'
    BY <1>1, <2>0, <2>1 DEF FormsGone, Bounds, Still
  <2>3. Sent(c)' = Sent(c) /\ Wanted(c)' = Wanted(c)
    BY <1>1, <2>1 DEF Sent, Wanted
  <2>4. ResendsCounted(c)'
    BY <2>0, <2>1, <2>3 DEF ResendsCounted
  <2> QED
    BY <2>2, <2>4
<1> QED
  BY <1>2, <1>3, <1>4 DEF PageInv

\* The inductive invariant, for any user: what the server has answered to whom,
\* what an editor implies, and how many logins a page may have sent.
THEOREM PageInvariance == Spec => [](ServerInv /\ PageInv)
<1>1. ASSUME ServerInv /\ PageInv, Next
      PROVE  (ServerInv /\ PageInv)'
  <2>1. ASSUME NEW c \in Clients, User(c) \/ Page(c)
        PROVE  (ServerInv /\ PageInv)'
    BY <1>1, <2>1, Stepping, StepsKeep
  <2>2. ASSUME NEW h \in DOMAIN asked, Serve(h)
        PROVE  (ServerInv /\ PageInv)'
    BY <1>1, <2>2, ServingKeeps
  <2> QED
    BY <1>1, <2>1, <2>2 DEF Next
<1>2. ASSUME ServerInv /\ PageInv, UNCHANGED vars
      PROVE  (ServerInv /\ PageInv)'
  BY <1>2, StutterKeeps
<1> QED
  BY <1>1, <1>2, Initially, PTL DEF Spec

LEMMA TypesHold ==
    ASSUME ServerInv, PageInv
    PROVE  ClientTypeOK
<1>0. ServerTyped /\ PagesTyped
  BY DEF ServerInv, PageInv
<1>1. next \in [Clients -> 0 .. Len(answers)]
  <2>1. \A c \in Clients : next[c] \in 0 .. Len(answers)
    BY <1>0, Typing, PageIs DEF PageInv, Bounds
  <2> QED
    BY <1>0, <2>1 DEF PagesTyped
<1>2. ASSUME NEW c \in Clients, NEW p, p = page[c]
      PROVE  /\ p.ws \in {"connecting", "open", "closed"}
             /\ p.root \in {"router", "form", "gone"}
             /\ p.loginState \in {"LOGIN", "LOGIN_PASS", "LOGIN_FAIL",
                                  "REGISTER", "REGISTERED", "undefined"}
             /\ {p.form, p.box, p.link} \subseteq
                    [login : Titles, pass : Passwords]
             /\ p.autologin => p.ws # "open"
             /\ {p.login_, p.greeting} \subseteq Titles
             /\ p.password_ \in Passwords
             /\ p.notka \in Texts \cup {DefaultText}
             /\ p.blurs \in 0 .. user[c].blurs
             /\ \A i \in DOMAIN p.waiting : p.waiting[i] \in Bodies
             /\ Len(p.waiting) <= user[c].submits
             /\ p.editor = (p.root = "gone")
  <2>1. p \in Pages /\ user[c] \in Habits
    BY <1>0, <1>2, PageIs
  <2>2. FormsGone(c) /\ Bounds(c)
    BY DEF PageInv
  <2>3. p.blurs \in 0 .. user[c].blurs
    BY <1>2, <2>1, <2>2 DEF Bounds, Pages, Habits
  <2>4. \A i \in DOMAIN p.waiting : p.waiting[i] \in Bodies
    <3>1. p.waiting \in Seq(Logins)
      BY <2>1 DEF Pages
    <3>2. \A i \in DOMAIN p.waiting : p.waiting[i] \in Logins
      BY <3>1
    <3> QED
      BY <3>2 DEF Logins, Bodies
  <2>5. {p.form, p.box, p.link} \subseteq [login : Titles, pass : Passwords]
    BY <2>1 DEF Pages, Forms
  <2> QED
    BY <1>2, <2>1, <2>2, <2>3, <2>4, <2>5 DEF Pages, Screens, Contents, Bounds, FormsGone
<1> QED
  BY <1>1, <1>2 DEF ClientTypeOK

\* Types; in particular a page shows its login forms or the editor, never both
\* and never neither: Greeting unmounts the forms when the editor is rendered,
\* and a text or the answer to a save comes to a page only after that.
THEOREM ClientTypeCorrect == Spec => []ClientTypeOK
  BY PageInvariance, TypesHold, PTL

\* However many logins are submitted, put off, answered late or refused by the
\* server, the page of Websocket.js resends at most one for each that its user
\* submitted or its link held.
THEOREM ResendsBounded == Spec => []ResendsAreBounded
<1>1. ASSUME ServerInv, PageInv
      PROVE  ResendsAreBounded
  <2>0. ServerTyped /\ PagesTyped
    BY <1>1 DEF ServerInv, PageInv
  <2>1. ASSUME NEW c \in Clients
        PROVE  Cardinality(LoginsAsked(c)) + Len(page[c].waiting)
                 <= 2 * (user[c].submits
                         + (IF page[c].link.login = EmptyTitle THEN 0 ELSE 1))
    <3>1. Sent(c) <= 2 * Wanted(c)
      BY <1>1 DEF PageInv, ResendsCounted
    <3>2. /\ Cardinality(LoginsAsked(c)) \in Nat /\ Len(page[c].waiting) \in Nat
          /\ Wanted(c) \in Nat
      BY <2>0, SentIs
    <3>3. Cardinality(LoginsAsked(c)) + Len(page[c].waiting) <= Sent(c) /\ Sent(c) \in Nat
      BY <3>2 DEF Sent
    <3>4. Cardinality(LoginsAsked(c)) + Len(page[c].waiting) <= 2 * Wanted(c)
      BY <3>1, <3>2, <3>3
    <3> QED
      BY <3>4 DEF Wanted
  <2> QED
    BY <2>1 DEF ResendsAreBounded
<1> QED
  BY <1>1, PageInvariance, PTL
-----------------------------------------------------------------------------
(* A user who waits.                                                       *)

\* With every login answered, and every answer seen, nothing is under way.
LEMMA NotDueIsIdle ==
    ASSUME ServerInv, PagesTyped, NEW c \in Clients, ~AnswerDue(c)
    PROVE  Idle(c)
<1>0. ServerTyped /\ AcksCounted
  BY DEF ServerInv
<1>1. /\ page[c].autologin = FALSE /\ page[c].waiting = <<>>
      /\ ~(Cardinality(LoginsAsked(c)) > Cardinality(AcksSeen(c)))
  <2>1. page[c].autologin \in BOOLEAN
    BY PageIs DEF Pages
  <2> QED
    BY <2>1 DEF AnswerDue
<1>2. /\ IsFiniteSet(LoginsAsked(c)) /\ IsFiniteSet(Acks(c)) /\ IsFiniteSet(Served(c))
      /\ Served(c) \subseteq LoginsAsked(c) /\ AcksSeen(c) \subseteq Acks(c)
  BY <1>0, SetsAre
<1>3. /\ Cardinality(AcksSeen(c)) \in Nat /\ Cardinality(Acks(c)) \in Nat
      /\ Cardinality(AcksSeen(c)) <= Cardinality(Acks(c))
      /\ Cardinality(AcksSeen(c)) = Cardinality(Acks(c)) => AcksSeen(c) = Acks(c)
  BY <1>2, AtMost
<1>4. /\ Cardinality(Served(c)) \in Nat /\ Cardinality(LoginsAsked(c)) \in Nat
      /\ Cardinality(Served(c)) <= Cardinality(LoginsAsked(c))
      /\ Cardinality(Served(c)) = Cardinality(LoginsAsked(c)) => Served(c) = LoginsAsked(c)
  BY <1>2, AtMost
<1>5. Cardinality(Acks(c)) <= Cardinality(Served(c))
  BY <1>0 DEF AcksCounted
<1>6. AcksSeen(c) = Acks(c) /\ Served(c) = LoginsAsked(c)
  BY <1>1, <1>3, <1>4, <1>5
<1>7. next[c] \in Nat /\ Acks(c) \subseteq Nat
  BY <1>0, PageIs, SetsAre
<1>8. Unseen(c) = {}
  <2>1. \A i \in Acks(c) : i <= next[c]
    BY <1>6 DEF AcksSeen
  <2> QED
    BY <1>7, <2>1 DEF Unseen
<1> QED
  BY <1>1, <1>6, <1>8 DEF Idle, Unserved

\* What a page was told stays true.
LEMMA Remembered ==
    ASSUME NEW c \in Clients, NEW t, WasOpened(c, t), AcksSeen(c) \subseteq AcksSeen(c)',
           \A i \in DOMAIN answers : answers'[i] = answers[i] /\ To(i)' = To(i)
    PROVE  WasOpened(c, t)'
<1>1. PICK i \in AcksSeen(c) : answers[i].value = "LOGGED_IN" /\ To(i).body.title = t
  BY DEF WasOpened, To
<1>2. i \in DOMAIN answers
  BY DEF AcksSeen, AnswersTo
<1>3. i \in AcksSeen(c)' /\ answers'[i].value = "LOGGED_IN" /\ To(i)'.body.title = t
  BY <1>1, <1>2
<1>4. PICK j \in AcksSeen(c)' : j = i
  BY <1>3
<1>5. answers'[j].value = "LOGGED_IN" /\ asked'[answers'[j].to].body.title = t
  BY <1>3, <1>4 DEF To
<1> QED
  BY <1>4, <1>5 DEF WasOpened

\* Nothing that matters here has changed for the page of d, but that it is
\* idle now, that it has seen more, or that its user wishes more.
Alike(d) ==
    /\ Like(page'[d], page[d]) /\ state'[d] = state[d]
    /\ answers' = answers \/ \A i \in DOMAIN answers : answers'[i] = answers[i]
    /\ \A i \in DOMAIN answers : To(i)' = To(i)
    /\ \A h \in DOMAIN asked : asked'[h] = asked[h]
    /\ LoginsAsked(d)' = LoginsAsked(d) /\ Unserved(d)' \subseteq Unserved(d)
    /\ Acks(d)' = Acks(d) /\ Unseen(d)' = Unseen(d) /\ AcksSeen(d) \subseteq AcksSeen(d)'
    /\ page[d].autologin => page'[d].loginState = page[d].loginState
    /\ user[d].wishes \subseteq user'[d].wishes

LEMMA AlikeKeeps ==
    ASSUME NEW d \in Clients, OneUnderWay(d), Alike(d)
    PROVE  OneUnderWay(d)' /\ (Idle(d) => Idle(d)') /\ Current(d)' = Current(d)
<1>1. Current(d)' = Current(d)
  BY DEF Alike, Like, Current
<1>2. Idle(d) => Idle(d)'
  BY DEF Alike, Like, Idle
<1>3. \A h \in Unserved(d)' : asked'[h] = asked[h] /\ h \in Unserved(d)
  BY DEF Alike, Unserved, LoginsAsked
<1>4. \A i \in Unseen(d)' : answers'[i] = answers[i] /\ To(i)' = To(i) /\ i \in Unseen(d)
  BY DEF Alike, Unseen, Acks, AnswersTo
<1>5. OneUnderWay(d)'
  <2>1. page'[d].autologin =>
          page'[d].waiting = <<>> /\ LoginsAsked(d)' = {} /\ page'[d].loginState = "LOGIN"
    BY DEF Alike, Like, OneUnderWay
  <2>2. page'[d].waiting # <<>> =>
          page'[d].waiting = <<Current(d)'>> /\ Unserved(d)' = {} /\ Unseen(d)' = {}
    BY <1>1 DEF Alike, Like, OneUnderWay
  <2>3. \A h \in Unserved(d)' :
          asked'[h].body = Current(d)' /\ Unserved(d)' = {h} /\ Unseen(d)' = {}
    BY <1>1, <1>3 DEF Alike, OneUnderWay
  <2>4. \A i \in Unseen(d)' :
          To(i)'.body = Current(d)' /\ Unseen(d)' = {i} /\ answers'[i].value = state'[d]
    BY <1>1, <1>4 DEF Alike, OneUnderWay
  <2> QED
    BY <2>1, <2>2, <2>3, <2>4 DEF OneUnderWay
<1> QED
  BY <1>1, <1>2, <1>5

\* A title stays registered with its password.
UsersKept ==
    \A t \in Titles : users[t] # NoPassword => users'[t] = users[t]

\* The screen, too: what the page is truthful about is as before.
LEMMA AlikeIsTruthful ==
    ASSUME PagesTyped, NEW d \in Clients, OneUnderWay(d), Truthful(d), Wished(d),
           Alike(d), UsersKept,
           page'[d].root = "gone" <=> page[d].root = "gone",
           page'[d].loginState = page[d].loginState
    PROVE  Patient(d)'
<1>1. OneUnderWay(d)' /\ (Idle(d) => Idle(d)') /\ Current(d)' = Current(d)
  BY AlikeKeeps
<1>2. /\ page'[d].login_ = page[d].login_ /\ page'[d].password_ = page[d].password_
      /\ page'[d].greeting = page[d].greeting /\ state'[d] = state[d]
      /\ \A h \in DOMAIN asked : asked'[h] = asked[h]
      /\ Unseen(d)' = Unseen(d)
      /\ user[d].wishes \subseteq user'[d].wishes
  BY DEF Alike, Like
<1>3. \A t : WasOpened(d, t) => WasOpened(d, t)'
  BY Remembered DEF Alike
<1>4. page[d].login_ \in Titles /\ page[d].password_ \in Passwords
  BY PageIs DEF Pages
<1>5. page'[d].root = "gone" => Idle(d)' /\ WasOpened(d, page[d].greeting)'
  BY <1>1, <1>2, <1>3 DEF Truthful
<1>6. page'[d].loginState = "REGISTERED" =>
        Idle(d)' /\ users'[page'[d].login_] = page'[d].password_
  BY <1>1, <1>2, <1>4, ClientAssumption DEF Truthful, UsersKept
<1>8. Truthful(d)'
  BY <1>5, <1>6 DEF Truthful
<1>9. Wished(d)'
  BY <1>1, <1>2 DEF Wished
<1> QED
  BY <1>1, <1>8, <1>9 DEF Patient

LEMMA SendsUnserved ==
    ASSUME ServerTyped, NEW c \in Clients, NEW body, Sends(c, body), body.kind = "login",
           Unserved(c) = {}
    PROVE  \E n : Unserved(c)' = {n} /\ asked'[n].body = body
<1>1. /\ Len(asked') \notin DOMAIN asked /\ LoginsAsked(c) \subseteq DOMAIN asked
      /\ LoginsAsked(c)' = LoginsAsked(c) \cup {Len(asked')}
  BY SendsLogin DEF LoginsAsked
<1>2. Served(c)' = Served(c) /\ Served(c) \subseteq DOMAIN asked
  <2>1. Extended(c)
    BY DEF Sends
  <2> QED
    BY <2>1, SendsSets DEF Served, LoginsAsked
<1>3. Unserved(c)' = {Len(asked')}
  BY <1>1, <1>2 DEF Unserved
<1> QED
  BY <1>3 DEF Sends

\* A login of c has just been sent, and it is the only one.
LEMMA OneIsUnderWay ==
    ASSUME NEW c \in Clients, NEW n, Unserved(c)' = {n}, asked'[n].body = Current(c)',
           Unseen(c)' = {}, page'[c].waiting = <<>>, ~page'[c].autologin
    PROVE  OneUnderWay(c)'
  BY DEF OneUnderWay

LEMMA OthersArePatient ==
    ASSUME ServerTyped, PagesTyped, NEW c \in Clients, Acts(c), NEW d \in Clients, d # c, Patient(d)
    PROVE  Patient(d)'
<1>1. page'[d] = page[d] /\ user'[d] = user[d] /\ next'[d] = next[d]
  BY DEF Acts, Only
<1>2. /\ answers' = answers /\ users' = users /\ state' = state
      /\ Served(d)' = Served(d) /\ Acks(d)' = Acks(d) /\ LoginsAsked(d)' = LoginsAsked(d)
      /\ \A h \in DOMAIN asked : asked'[h] = asked[h]
      /\ \A h \in DOMAIN asked' \ DOMAIN asked : asked'[h].client # d
      /\ \A i \in DOMAIN answers : To(i)' = To(i)
  BY ActsSets
<1>3. AcksSeen(d)' = AcksSeen(d) /\ Unseen(d)' = Unseen(d) /\ Unserved(d)' = Unserved(d)
  BY <1>1, <1>2 DEF AcksSeen, Acks, Unseen, Unserved
<1>4. Alike(d)
  BY <1>1, <1>2, <1>3 DEF Alike, Like
<1>5. UsersKept
  BY <1>2 DEF UsersKept
<1> QED
  BY <1>1, <1>2, <1>4, <1>5, AlikeIsTruthful DEF Patient

LEMMA MovesPatiently ==
    ASSUME ServerInv, PagesTyped, NEW c \in Clients, Moves(c), Patient(c), ~user'[c].hasty
    PROVE  Patient(c)'
<1>0. OneUnderWay(c) /\ Truthful(c) /\ Wished(c)
  BY DEF Patient
<1>1. /\ Still /\ next' = next /\ Moved(c, page'[c], user'[c])
      /\ answers' = answers /\ asked' = asked /\ users' = users /\ state' = state
  BY DEF Moves, Still
<1>2. /\ LoginsAsked(c)' = LoginsAsked(c) /\ Acks(c)' = Acks(c) /\ Served(c)' = Served(c)
      /\ \A i \in DOMAIN answers : To(i)' = To(i)
  BY <1>1, StillSame
<1>3. AcksSeen(c)' = AcksSeen(c) /\ Unseen(c)' = Unseen(c) /\ Unserved(c)' = Unserved(c)
  BY <1>1, <1>2 DEF AcksSeen, Acks, Unseen, Unserved
<1>4. ~AnswerDue(c) => Idle(c) /\ ~page[c].autologin
  BY NotDueIsIdle DEF Idle
<1>5. Like(page'[c], page[c]) /\ user'[c].wishes = user[c].wishes
  BY <1>1 DEF Moved
<1>6. \/ page'[c].loginState = page[c].loginState
      \/ Idle(c) /\ ~page[c].autologin /\ page'[c].loginState = "REGISTER"
      \/ page'[c].loginState = "LOGIN"
  BY <1>1, <1>4 DEF Moved
<1>7. Alike(c)
  <2>1. page[c].autologin => page'[c].loginState = page[c].loginState
    BY <1>0, <1>6 DEF OneUnderWay
  <2> QED
    BY <1>1, <1>2, <1>3, <1>5, <2>1 DEF Alike
<1>8. OneUnderWay(c)' /\ (Idle(c) => Idle(c)')
  BY <1>0, <1>7, AlikeKeeps
<1>9. page'[c].root = "gone" => page[c].root = "gone"
  BY <1>1 DEF Moved
<1>11. page[c].root = "gone" => WasOpened(c, page[c].greeting)'
  <2> SUFFICES ASSUME page[c].root = "gone"
               PROVE  WasOpened(c, page[c].greeting)'
    OBVIOUS
  <2>1. PICK t : t = page[c].greeting
    OBVIOUS
  <2>2. WasOpened(c, t)
    BY <1>0, <2>1 DEF Truthful
  <2>3. WasOpened(c, t)'
    BY <1>1, <1>2, <1>3, <2>2, Remembered
  <2>4. page'[c].greeting = t
    BY <1>5, <2>1 DEF Like
  <2> QED
    BY <2>3, <2>4
<1>12. Truthful(c)'
  BY <1>0, <1>1, <1>5, <1>6, <1>8, <1>9, <1>11 DEF Truthful, Like
<1>13. Wished(c)'
  BY <1>0, <1>1, <1>3, <1>5, <1>6, <1>8 DEF Wished, Like
<1> QED
  BY <1>8, <1>12, <1>13 DEF Patient

LEMMA HearsPatiently ==
    ASSUME ServerInv, PagesTyped, NEW c \in Clients, NEW i \in DOMAIN answers, Hears(c, i), Patient(c)
    PROVE  Patient(c)'
<1>0. OneUnderWay(c) /\ Truthful(c) /\ Wished(c) /\ ServerTyped
  BY DEF Patient, ServerInv
<1>1. /\ Still /\ HasNext(c, i) /\ answers[i].kind # "login_ack" /\ user'[c] = user[c]
      /\ answers' = answers /\ asked' = asked /\ users' = users /\ state' = state
  BY DEF Hears, Still, SameUser
<1>2. /\ LoginsAsked(c)' = LoginsAsked(c) /\ Acks(c)' = Acks(c) /\ Served(c)' = Served(c)
      /\ Refusals(c)' = Refusals(c)
      /\ \A j \in DOMAIN answers : To(j)' = To(j)
  BY <1>1, StillSame
<1>3. AcksSeen(c)' = AcksSeen(c) /\ Unseen(c)' = Unseen(c) /\ Unserved(c)' = Unserved(c)
  <2>1. AcksSeen(c)' = AcksSeen(c) /\ Unseen(c)' = Unseen(c) \ {i}
    BY <1>0, <1>1, <1>2, Hurries
  <2>2. i \notin Unseen(c)
    BY <1>1 DEF Unseen, Acks, AnswersTo
  <2> QED
    BY <1>2, <2>1, <2>2 DEF Unserved
<1>4. Alike(c)
  BY <1>1, <1>2, <1>3 DEF Alike, Hears
<1>5. UsersKept
  BY <1>1 DEF UsersKept
<1> QED
  BY <1>0, <1>1, <1>4, <1>5, AlikeIsTruthful DEF Hears

LEMMA SavesPatiently ==
    ASSUME ServerInv, PageInv, NEW c \in Clients, Saves(c), Patient(c)
    PROVE  Patient(c)'
<1>0. /\ OneUnderWay(c) /\ Truthful(c) /\ Wished(c) /\ ServerTyped /\ PagesTyped
  BY DEF Patient, ServerInv, PageInv
<1>1. /\ Acts(c) /\ next'[c] = next[c] /\ Like(page'[c], page[c])
      /\ page'[c].root = page[c].root /\ page'[c].loginState = page[c].loginState
      /\ user'[c].wishes = user[c].wishes
  BY DEF Saves, Acts, Sends, SameNext, SameScreen
<1>2. LoginsAsked(c)' = LoginsAsked(c)
  <2>1. CASE Still
    BY <2>1, StillSame
  <2>2. CASE Sends(c, SaveBody(c))
    <3>1. SaveBody(c).kind # "login"
      BY DEF SaveBody
    <3> QED
      BY <1>0, <2>2, <3>1, SendsLogin
  <2> QED
    BY <2>1, <2>2 DEF Saves
<1>3. /\ answers' = answers /\ users' = users /\ state' = state
      /\ Served(c)' = Served(c) /\ Acks(c)' = Acks(c)
      /\ \A h \in DOMAIN asked : asked'[h] = asked[h]
      /\ \A i \in DOMAIN answers : To(i)' = To(i)
  BY <1>0, <1>1, ActsSets
<1>4. AcksSeen(c)' = AcksSeen(c) /\ Unseen(c)' = Unseen(c) /\ Unserved(c)' = Unserved(c)
  BY <1>1, <1>2, <1>3 DEF AcksSeen, Acks, Unseen, Unserved
<1>5. Alike(c)
  BY <1>1, <1>2, <1>3, <1>4 DEF Alike
<1>6. UsersKept
  BY <1>3 DEF UsersKept
<1> QED
  BY <1>0, <1>1, <1>5, <1>6, AlikeIsTruthful

LEMMA NoLoginsNoAcks ==
    ASSUME ServerInv, NEW c \in Clients, LoginsAsked(c) = {}
    PROVE  Acks(c) = {} /\ Unserved(c) = {} /\ Unseen(c) = {}
<1>1. ServerTyped /\ Cardinality(Acks(c)) <= Cardinality(Served(c))
  BY DEF ServerInv, AcksCounted
<1>2. IsFiniteSet(Acks(c)) /\ Served(c) = {} /\ Cardinality(Acks(c)) \in Nat
  BY <1>1, SetsAre, FS_CardinalityType
<1>3. Cardinality({}) = 0
  BY FS_EmptySet
<1>4. Cardinality(Acks(c)) = 0
  BY <1>1, <1>2, <1>3
<1>5. Acks(c) = {}
  BY <1>2, <1>4, FS_EmptySet
<1> QED
  BY <1>5 DEF Unserved, Unseen

\* The one login of a page is sent.
LEMMA SentPatiently ==
    ASSUME ServerTyped, NEW c \in Clients, NEW body, Acts(c), Sends(c, body),
           body.kind = "login", body = Current(c)', Unserved(c) = {}, Unseen(c)' = {},
           page'[c].waiting = <<>>, ~page'[c].autologin,
           page'[c].root # "gone", page'[c].loginState # "REGISTERED",
           page'[c].loginState = "REGISTER" =>
              \E w \in user'[c].wishes : w.title = page'[c].login_
    PROVE  Patient(c)'
<1>1. PICK n : Unserved(c)' = {n} /\ asked'[n].body = body
  BY SendsUnserved
<1>2. OneUnderWay(c)'
  BY <1>1, OneIsUnderWay
<1>6. Truthful(c)'
  BY DEF Truthful
<1>7. Wished(c)'
  BY DEF Wished
<1> QED
  BY <1>2, <1>6, <1>7 DEF Patient

LEMMA PutsPatiently ==
    ASSUME ServerInv, PagesTyped, NEW c \in Clients, NEW i \in DOMAIN page[c].waiting, Puts(c, i),
           Patient(c)
    PROVE  Patient(c)'
<1>0. OneUnderWay(c) /\ Truthful(c) /\ Wished(c) /\ ServerTyped
  BY DEF Patient, ServerInv
<1>1. page[c].waiting # <<>>
  OBVIOUS
<1>2. page[c].waiting = <<Current(c)>> /\ Unserved(c) = {} /\ Unseen(c) = {} /\ ~page[c].autologin
  BY <1>0, <1>1 DEF OneUnderWay
<1>3. ~Idle(c)
  BY <1>1 DEF Idle
<1>4. page[c].waiting[i] = Current(c) /\ Len(page[c].waiting) = 1
  <2>1. DOMAIN <<Current(c)>> = {1} /\ Len(<<Current(c)>>) = 1 /\ <<Current(c)>>[1] = Current(c)
    OBVIOUS
  <2> QED
    BY <1>2, <2>1
<1>5. /\ Sends(c, page[c].waiting[i]) /\ next'[c] = next[c] /\ user'[c] = user[c]
      /\ page'[c].root = page[c].root /\ page'[c].loginState = page[c].loginState
      /\ page'[c].login_ = page[c].login_ /\ page'[c].password_ = page[c].password_
      /\ page'[c].autologin = page[c].autologin
      /\ page'[c].waiting \in Seq(Logins) /\ Len(page'[c].waiting) = Len(page[c].waiting) - 1
  BY DEF Puts, SameNext, SameUser, SameScreen
<1>6. page'[c].waiting = <<>>
  BY <1>4, <1>5
<1>7. PICK body : body = page[c].waiting[i]
  OBVIOUS
<1>8. Current(c)' = Current(c) /\ Current(c).kind = "login"
  BY <1>5 DEF Current, LoginBody
<1>9. body.kind = "login" /\ body = Current(c)' /\ Sends(c, body)
  BY <1>4, <1>5, <1>7, <1>8
<1>10. Acts(c)
  BY DEF Acts, Puts, Sends
<1>11. Acks(c)' = Acks(c)
  BY <1>0, <1>10, ActsSets
<1>12. Unseen(c)' = {}
  BY <1>2, <1>5, <1>11 DEF Unseen
<1>13. page'[c].root # "gone" /\ page'[c].loginState # "REGISTERED"
  BY <1>0, <1>3, <1>5 DEF Truthful
<1>14. page'[c].loginState = "REGISTER" =>
              \E w \in user'[c].wishes : w.title = page'[c].login_
  BY <1>0, <1>2, <1>3, <1>5 DEF Wished
<1> QED
  BY <1>0, <1>2, <1>5, <1>6, <1>9, <1>10, <1>12, <1>13, <1>14, SentPatiently

LEMMA LinksPatiently ==
    ASSUME ServerInv, PagesTyped, NEW c \in Clients, Connects(c), Patient(c)
    PROVE  Patient(c)'
<1>0. OneUnderWay(c) /\ Truthful(c) /\ Wished(c) /\ ServerTyped
  BY DEF Patient, ServerInv
<1>1. /\ next'[c] = next[c] /\ user'[c] = user[c]
      /\ page'[c].root = page[c].root /\ page'[c].loginState = page[c].loginState
      /\ page'[c].waiting = page[c].waiting /\ page'[c].link = page[c].link /\ ~page'[c].autologin
      /\ page'[c].greeting = page[c].greeting
  BY DEF Connects, SameNext, SameUser, SameScreen
<1>2. Acts(c)
  BY DEF Acts, Connects, Sends
<1>3. /\ Acks(c)' = Acks(c) /\ Served(c)' = Served(c) /\ answers' = answers /\ users' = users
      /\ state' = state
      /\ \A h \in DOMAIN asked : asked'[h] = asked[h]
      /\ \A i \in DOMAIN answers : To(i)' = To(i)
  BY <1>0, <1>2, ActsSets
<1>4. Unseen(c)' = Unseen(c) /\ AcksSeen(c)' = AcksSeen(c)
  BY <1>1, <1>3 DEF Unseen, AcksSeen, Acks
<1>5. CASE page[c].autologin
  <2> DEFINE login == page[c].link.login
             pass == page[c].link.pass
  <2>1. /\ page[c].waiting = <<>> /\ LoginsAsked(c) = {} /\ page[c].loginState = "LOGIN"
        /\ ~Idle(c)
    BY <1>0, <1>5 DEF OneUnderWay, Idle
  <2>2. Unserved(c) = {} /\ Unseen(c) = {}
    BY <2>1, NoLoginsNoAcks
  <2>3. /\ page'[c].login_ = login /\ page'[c].password_ = pass
        /\ Sends(c, LoginBody(login, pass))
    BY <1>5 DEF Connects
  <2>4. PICK body : /\ body = LoginBody(login, pass) /\ body.kind = "login"
                    /\ Sends(c, body) /\ body = Current(c)'
    BY <2>3 DEF Current, LoginBody
  <2>5. page'[c].root # "gone" /\ page'[c].loginState = "LOGIN"
    BY <1>0, <1>1, <2>1 DEF Truthful
  <2> QED
    BY <1>0, <1>1, <1>2, <1>4, <2>1, <2>2, <2>4, <2>5, SentPatiently
<1>6. CASE ~page[c].autologin
  <2>1. PICK body : /\ Sends(c, body) /\ body = [kind |-> "syn"]
                    /\ page'[c].login_ = page[c].login_ /\ page'[c].password_ = page[c].password_
    BY <1>6 DEF Connects
  <2>2. body.kind = "syn"
    BY <2>1
  <2>3. LoginsAsked(c)' = LoginsAsked(c)
    BY <1>0, <2>1, <2>2, SendsLogin
  <2>4. Unserved(c)' = Unserved(c)
    BY <1>3, <2>3 DEF Unserved
  <2>5. page'[c].autologin = page[c].autologin
    <3>1. page'[c].autologin = FALSE
      BY DEF Connects
    <3>2. page[c].autologin \in BOOLEAN
      BY PageIs DEF Pages
    <3> QED
      BY <1>6, <3>1, <3>2
  <2>6. Alike(c)
    BY <1>1, <1>3, <1>4, <2>1, <2>3, <2>4, <2>5 DEF Alike, Like
  <2>7. UsersKept
    BY <1>3 DEF UsersKept
  <2> QED
    BY <1>0, <1>1, <2>6, <2>7, AlikeIsTruthful
<1> QED
  BY <1>5, <1>6

LEMMA SubmitsPatiently ==
    ASSUME ServerInv, PagesTyped, NEW c \in Clients, Submits(c), ~user'[c].hasty
    PROVE  Patient(c)'
<1>0. ServerTyped
  BY DEF ServerInv
<1> DEFINE login == page[c].form.login
           pass == page[c].form.pass
<1>1. /\ next'[c] = next[c] /\ ~AnswerDue(c) /\ page[c].root # "gone"
      /\ page'[c].root = page[c].root /\ page'[c].loginState = page[c].loginState
      /\ page[c].loginState \in {"LOGIN", "LOGIN_PASS", "REGISTER"}
      /\ page'[c].autologin = page[c].autologin
      /\ page'[c].login_ = login /\ page'[c].password_ = pass
  BY DEF Submits, SameNext, SameScreen
<1>2. /\ ~page[c].autologin /\ page[c].waiting = <<>> /\ Unserved(c) = {} /\ Unseen(c) = {}
      /\ page[c].root # "gone"
  BY <1>1, NotDueIsIdle DEF Idle
<1>3. Acts(c)
  BY DEF Acts, Submits, Sends
<1>4. /\ Acks(c)' = Acks(c) /\ Served(c)' = Served(c) /\ answers' = answers
      /\ state' = state
      /\ \A i \in DOMAIN answers : To(i)' = To(i)
  BY <1>0, <1>3, ActsSets
<1>5. Unseen(c)' = {} /\ AcksSeen(c)' = AcksSeen(c)
  BY <1>1, <1>2, <1>4 DEF Unseen, AcksSeen, Acks
<1>6. Current(c)' = LoginBody(login, pass) /\ LoginBody(login, pass).kind = "login"
  BY <1>1 DEF Current, LoginBody
<1>7. page'[c].loginState = "REGISTER" => \E w \in user'[c].wishes : w.title = page'[c].login_
  <2> SUFFICES ASSUME page'[c].loginState = "REGISTER"
               PROVE  \E w \in user'[c].wishes : w.title = page'[c].login_
    OBVIOUS
  <2>1. [title |-> login, password |-> page[c].box.pass] \in user'[c].wishes
    BY <1>1 DEF Submits
  <2>2. [title |-> login, password |-> page[c].box.pass].title = page'[c].login_
    BY <1>1
  <2> QED
    BY <2>1, <2>2
<1>9. CASE Sends(c, LoginBody(login, pass)) /\ page'[c].waiting = page[c].waiting
  <2>1. PICK body : body = LoginBody(login, pass)
    OBVIOUS
  <2> QED
    BY <1>0, <1>1, <1>2, <1>3, <1>5, <1>6, <1>7, <1>9, <2>1, SentPatiently
<1>10. CASE Still /\ page'[c].waiting = Append(page[c].waiting, LoginBody(login, pass))
  <2>1. page'[c].waiting = <<Current(c)'>>
    <3>1. PICK body : body = LoginBody(login, pass)
      OBVIOUS
    <3>2. page'[c].waiting = <<body>>
      BY <1>2, <1>10, <3>1
    <3> QED
      BY <1>6, <3>1, <3>2
  <2>2. LoginsAsked(c)' = LoginsAsked(c) /\ asked' = asked
    BY <1>10, StillSame DEF Still
  <2>3. Unserved(c)' = {}
    BY <1>2, <1>4, <2>2 DEF Unserved
  <2>4. OneUnderWay(c)'
    BY <1>1, <1>2, <1>5, <2>1, <2>3 DEF OneUnderWay
  <2>6. Truthful(c)'
    BY <1>1, <1>2 DEF Truthful
  <2>7. Wished(c)'
    BY <1>7 DEF Wished
  <2> QED
    BY <2>4, <2>6, <2>7 DEF Patient
<1> QED
  BY <1>9, <1>10 DEF Submits

LEMMA HeedsPatiently ==
    ASSUME ServerInv, PagesTyped, NEW c \in Clients, NEW i \in DOMAIN answers, Heeds(c, i), Patient(c)
    PROVE  Patient(c)'
<1>0. /\ OneUnderWay(c) /\ Truthful(c) /\ Wished(c)
      /\ ServerTyped /\ AnswersFit
  BY DEF Patient, ServerInv
<1>1. /\ HasNext(c, i) /\ answers[i].kind = "login_ack" /\ user'[c] = user[c]
      /\ page'[c].login_ = page[c].login_ /\ page'[c].password_ = page[c].password_
      /\ page'[c].waiting = page[c].waiting /\ page'[c].autologin = page[c].autologin
  BY DEF Heeds, SameUser
<1>2. Acts(c)
  BY DEF Acts, Heeds, Sends
<1>3. /\ Acks(c)' = Acks(c) /\ Served(c)' = Served(c) /\ Refusals(c)' = Refusals(c)
      /\ answers' = answers /\ users' = users /\ state' = state
      /\ \A j \in DOMAIN answers : To(j)' = To(j)
  BY <1>0, <1>2, ActsSets
<1>4. /\ AcksSeen(c)' = AcksSeen(c) \cup {i} /\ Unseen(c)' = Unseen(c) \ {i}
      /\ i \in Nat /\ next[c] \in Nat /\ next[c] < i
  BY <1>0, <1>1, <1>3, Hurries
<1>5. i \in Unseen(c) /\ i \in Acks(c) /\ answers[i].to \in LoginsAsked(c)
  <2>1. To(i).client = c /\ answers[i].to \in DOMAIN asked
    BY <1>0, <1>1 DEF HasNext, ServerTyped
  <2>2. i \in Acks(c)
    BY <1>1, <2>1 DEF Acks, AnswersTo, To
  <2>3. To(i).body.kind = "login"
    BY <1>0, <1>1 DEF AnswersFit
  <2> QED
    BY <1>4, <2>1, <2>2, <2>3 DEF Unseen, LoginsAsked, To
<1>6. To(i).body = Current(c) /\ Unseen(c) = {i} /\ answers[i].value = state[c]
  BY <1>0, <1>5 DEF OneUnderWay
<1>7. /\ page[c].waiting = <<>> /\ ~page[c].autologin /\ Unserved(c) = {} /\ ~Idle(c)
  <2>1. LoginsAsked(c) # {} /\ Unseen(c) # {}
    BY <1>5
  <2> QED
    BY <1>0, <2>1 DEF OneUnderWay, Idle
<1>8. Unseen(c)' = {} /\ AcksSeen(c) \subseteq AcksSeen(c)' /\ Current(c)' = Current(c)
  BY <1>1, <1>4, <1>6 DEF Current
<1>9. page[c].root # "gone" /\ page[c].loginState # "REGISTERED"
  BY <1>0, <1>7 DEF Truthful
<1>10. To(i).body.title = page[c].login_ /\ To(i).body.password = page[c].password_
  BY <1>6 DEF Current, LoginBody
<1>11. ASSUME Still
       PROVE  Idle(c)' /\ OneUnderWay(c)' /\ asked' = asked
  <2>1. LoginsAsked(c)' = LoginsAsked(c) /\ asked' = asked
    BY <1>11, StillSame DEF Still
  <2>2. Unserved(c)' = {}
    BY <1>3, <1>7, <2>1 DEF Unserved
  <2>3. Idle(c)' /\ OneUnderWay(c)'
    BY <1>1, <1>7, <1>8, <2>2 DEF Idle, OneUnderWay
  <2> QED
    BY <2>1, <2>3
<1>12. CASE /\ Still /\ answers[i].value = "LOGGED_IN"
            /\ page'[c].root = "gone" /\ page'[c].greeting = page[c].login_
            /\ page'[c].loginState = page[c].loginState
  <2>1. PICK t : t = page[c].login_
    OBVIOUS
  <2>2. WasOpened(c, t)'
    <3>1. PICK j \in AcksSeen(c)' : j = i
      BY <1>4
    <3>2. answers'[j].value = "LOGGED_IN" /\ To(j)'.body.title = t
      BY <1>3, <1>10, <1>12, <2>1, <3>1
    <3>3. asked'[answers'[j].to].body.title = t
      BY <3>2 DEF To
    <3> QED
      BY <3>1, <3>2, <3>3 DEF WasOpened
  <2>3. page'[c].greeting = t /\ page'[c].login_ = t
    BY <1>1, <1>12, <2>1
  <2>4. Truthful(c)'
    BY <1>9, <1>11, <1>12, <2>2, <2>3 DEF Truthful
  <2>5. Wished(c)'
    BY <1>3, <1>6, <1>11, <1>12 DEF Wished
  <2> QED
    BY <1>11, <1>12, <2>4, <2>5 DEF Patient
<1>13. CASE /\ answers[i].value = "NO_SUCH_USER" /\ page[c].loginState = "REGISTER"
            /\ SameScreen(c)
            /\ Sends(c, LoginBody(page[c].login_, page[c].password_))
  <2>1. PICK body : /\ Sends(c, body) /\ body.kind = "login" /\ body = Current(c)'
    BY <1>8, <1>13 DEF Current, LoginBody
  <2>2. page'[c].root = page[c].root /\ page'[c].loginState = "REGISTER"
    BY <1>13 DEF SameScreen
  <2>3. \E w \in user'[c].wishes : w.title = page'[c].login_
    BY <1>0, <1>1, <1>7, <1>13 DEF Wished
  <2> QED
    BY <1>0, <1>1, <1>2, <1>7, <1>8, <1>9, <2>1, <2>2, <2>3, SentPatiently DEF Patient
<1>14. CASE /\ Still /\ answers[i].value # "LOGGED_IN"
            /\ page'[c].loginState = ScreenAfter(answers[i].value, page[c].loginState)
            /\ page'[c].root = IF page[c].root = "router" THEN "form" ELSE page[c].root
  <2>1. page'[c].root # "gone"
    BY <1>9, <1>14
  <2>2. page'[c].loginState = "REGISTERED" => answers[i].value = "REGISTERED"
    BY <1>14 DEF ScreenAfter
  <2>3. answers[i].value = "REGISTERED" => users[page[c].login_] = page[c].password_
    BY <1>0, <1>1, <1>10 DEF AnswersFit
  <2>4. answers[i].value = "NO_SUCH_USER" => page'[c].loginState = "REGISTER"
    BY <1>14 DEF ScreenAfter
  <2>5. Truthful(c)'
    BY <1>1, <1>3, <1>11, <1>14, <2>1, <2>2, <2>3 DEF Truthful
  <2>6. Wished(c)'
    BY <1>3, <1>6, <1>11, <1>14, <2>4 DEF Wished
  <2> QED
    BY <1>11, <1>14, <2>5, <2>6 DEF Patient
<1> QED
  BY <1>12, <1>13, <1>14 DEF Heeds

LEMMA AckPatiently ==
    ASSUME ServerInv, PageInv, UNCHANGED <<page, next, user>>,
           NEW h \in DOMAIN asked, NEW v \in Verdicts, Acknowledges(h, v),
           NEW d \in Clients, Patient(d)
    PROVE  Patient(d)'
<1>0. /\ OneUnderWay(d) /\ Truthful(d) /\ Wished(d) /\ ServerTyped /\ PagesTyped /\ Bounds(d)
  BY DEF Patient, ServerInv, PageInv
<1>n. PICK n \in Nat : n = Len(answers) + 1
  BY <1>0, Typing
<1>1. /\ \A i \in DOMAIN answers : answers'[i] = answers[i] /\ To(i)' = To(i)
      /\ answers'[n].to = h /\ answers'[n].value = v /\ asked' = asked
  <2>1. Answered(n, h, v)
    BY <1>0, <1>n, AckAnswers
  <2> QED
    BY <2>1 DEF Answered
<1>2. /\ page' = page /\ next' = next /\ user' = user /\ Current(d)' = Current(d)
  BY DEF Current
<1>3. UsersKept
  BY <1>0 DEF UsersKept, Acknowledges, ServerTyped
<1>4. n > next[d] /\ next[d] \in Nat
  BY <1>0, <1>n, Typing, PageIs DEF Bounds
<1>5. /\ LoginsAsked(d)' = LoginsAsked(d)
      /\ h \in LoginsAsked(asked[h].client) /\ h \notin Served(d) /\ n \notin Acks(d)
      /\ d # asked[h].client => Served(d)' = Served(d) /\ Acks(d)' = Acks(d)
      /\ d = asked[h].client => /\ Served(d)' = Served(d) \cup {h}
                                /\ Acks(d)' = Acks(d) \cup {n}
  BY <1>0, <1>n, AckSets
<1>6. AcksSeen(d)' = AcksSeen(d)
  <2>1. ~(n <= next[d])
    BY <1>4
  <2> QED
    BY <1>2, <1>5, <2>1 DEF AcksSeen, Acks
<1>7. CASE d # asked[h].client
  <2>1. state'[d] = state[d]
    BY <1>0, <1>7 DEF Acknowledges, ServerTyped
  <2>2. Unseen(d)' = Unseen(d) /\ Unserved(d)' = Unserved(d)
    BY <1>2, <1>5, <1>7 DEF Unseen, Unserved
  <2>3. Alike(d)
    BY <1>1, <1>2, <1>5, <1>6, <1>7, <2>1, <2>2 DEF Alike, Like
  <2> QED
    BY <1>0, <1>1, <1>2, <1>3, <2>3, AlikeIsTruthful
<1>8. CASE d = asked[h].client
  <2>1. h \in Unserved(d)
    BY <1>5, <1>8 DEF Unserved
  <2>2. asked[h].body = Current(d) /\ Unserved(d) = {h} /\ Unseen(d) = {}
    BY <1>0, <2>1 DEF OneUnderWay
  <2>3. page[d].waiting = <<>> /\ ~page[d].autologin /\ ~Idle(d)
    <3>1. LoginsAsked(d) # {} /\ Unserved(d) # {}
      BY <1>5, <1>8, <2>1
    <3> QED
      BY <1>0, <3>1 DEF OneUnderWay, Idle
  <2>4. Unserved(d)' = {}
    BY <1>5, <1>8, <2>2 DEF Unserved
  <2>5. Unseen(d)' = {n}
    BY <1>2, <1>4, <1>5, <1>8, <2>2 DEF Unseen
  <2>6. state'[d] = v
    BY <1>0, <1>8 DEF Acknowledges, ServerTyped
  <2>7. To(n)'.body = Current(d)'
    BY <1>1, <1>2, <2>2 DEF To
  <2>8. OneUnderWay(d)'
    BY <1>1, <1>2, <2>3, <2>4, <2>5, <2>6, <2>7 DEF OneUnderWay
  <2>10. Truthful(d)'
    BY <1>0, <1>2, <2>3 DEF Truthful
  <2>11. Wished(d)'
    BY <1>0, <1>2, <2>3 DEF Wished
  <2> QED
    BY <2>8, <2>10, <2>11 DEF Patient
<1> QED
  BY <1>7, <1>8

LEMMA SettlesPatiently ==
    ASSUME ServerInv, PageInv, UNCHANGED <<page, next, user>>,
           NEW h \in DOMAIN asked, Settles(h), NEW d \in Clients, Patient(d)
    PROVE  Patient(d)'
<1>0. OneUnderWay(d) /\ Truthful(d) /\ Wished(d) /\ ServerTyped /\ PagesTyped
  BY DEF Patient, ServerInv, PageInv
<1>1. /\ LoginsAsked(d)' = LoginsAsked(d) /\ Acks(d)' = Acks(d)
      /\ Served(d) \subseteq Served(d)'
      /\ \A i \in DOMAIN answers : answers'[i] = answers[i] /\ To(i)' = To(i)
  BY <1>0, SettleSets
<1>2. asked' = asked /\ state' = state /\ users' = users
  BY DEF Settles
<1>3. /\ AcksSeen(d)' = AcksSeen(d) /\ Unseen(d)' = Unseen(d) /\ Unserved(d)' \subseteq Unserved(d)
  BY <1>1 DEF AcksSeen, Acks, Unseen, Unserved
<1>4. Alike(d)
  BY <1>1, <1>2, <1>3 DEF Alike, Like
<1>5. UsersKept
  BY <1>2 DEF UsersKept
<1> QED
  BY <1>0, <1>2, <1>4, <1>5, AlikeIsTruthful

LEMMA PatientAtFirst ==
    ASSUME Init, NEW c \in Clients
    PROVE  Patient(c)
<1>1. asked = <<>> /\ answers = <<>> /\ state[c] = "INIT"
  BY DEF Init, Server!Init
<1>2. DOMAIN asked = {} /\ DOMAIN answers = {}
  BY <1>1
<1>3. LoginsAsked(c) = {} /\ Acks(c) = {} /\ Unserved(c) = {} /\ Unseen(c) = {}
  BY <1>2 DEF LoginsAsked, Acks, AnswersTo, Unserved, Unseen
<1>4. page[c].waiting = <<>> /\ page[c].loginState = "LOGIN" /\ page[c].root = "router"
  BY DEF Init, NewPage
<1>5. OneUnderWay(c)
  BY <1>3, <1>4 DEF OneUnderWay
<1>6. Truthful(c)
  BY <1>4 DEF Truthful
<1>7. Wished(c)
  BY <1>4 DEF Wished
<1> QED
  BY <1>5, <1>6, <1>7 DEF Patient

-----------------------------------------------------------------------------
(* However hasty the user is.                                              *)

LEMMA StillTitled ==
    ASSUME NEW d \in Clients, Titled(d),
           page'[d].root = "gone" => page[d].root = "gone",
           page'[d].greeting = page[d].greeting, page'[d].login_ = page[d].login_,
           page'[d].autologin => page[d].autologin,
           AcksSeen(d) \subseteq AcksSeen(d)',
           \A i \in DOMAIN answers : answers'[i] = answers[i] /\ To(i)' = To(i),
           \A h \in DOMAIN asked' : asked'[h].client = d /\ asked'[h].body.kind = "save" =>
              asked'[h].body.title = page[d].greeting
    PROVE  Titled(d)'
<1>1. page'[d].root = "gone" => \E t \in Titles : WasOpened(d, t)'
  <2> SUFFICES ASSUME page'[d].root = "gone"
               PROVE  \E t \in Titles : WasOpened(d, t)'
    OBVIOUS
  <2>1. PICK t \in Titles : WasOpened(d, t)
    BY DEF Titled
  <2>2. WasOpened(d, t)'
    BY <2>1, Remembered
  <2> QED
    BY <2>2
<1>2. page'[d].root = "gone" => page'[d].greeting = page'[d].login_ /\ ~page'[d].autologin
  BY DEF Titled
<1>3. \A h \in DOMAIN asked' : asked'[h].client = d /\ asked'[h].body.kind = "save" =>
         asked'[h].body.title = page'[d].greeting
  OBVIOUS
<1> QED
  BY <1>1, <1>2, <1>3 DEF Titled

\* Without an editor there is nothing to say.
LEMMA NotGoneIsTitled ==
    ASSUME NEW d \in Clients, FormsGone(d)', page'[d].root # "gone"
    PROVE  Titled(d)'
  BY DEF FormsGone, Titled

\* What is sent besides saves changes no title.
LEMMA SavesStillTitled ==
    ASSUME NEW c \in Clients, Titled(c), NEW body, Sends(c, body),
           body.kind = "save" => body.title = page[c].greeting,
           NEW h \in DOMAIN asked', asked'[h].client = c, asked'[h].body.kind = "save"
    PROVE  asked'[h].body.title = page[c].greeting
<1>1. CASE h \in DOMAIN asked
  BY <1>1 DEF Sends, Extended, Titled
<1>2. CASE h \notin DOMAIN asked
  BY <1>2 DEF Sends
<1> QED
  BY <1>1, <1>2

LEMMA StillInformed ==
    ASSUME NEW d \in Clients, Informed(d),
           \/ page'[d].loginState = page[d].loginState
           \/ page'[d].loginState = "REGISTER"
           \/ page'[d].loginState = "LOGIN" /\ page[d].loginState # "REGISTER",
           state'[d] = state[d], Unseen(d)' = Unseen(d), AcksSeen(d) \subseteq AcksSeen(d)',
           \A i \in DOMAIN answers : answers'[i] = answers[i]
    PROVE  Informed(d)'
<1>1. AcksSeen(d) \subseteq DOMAIN answers /\ Unseen(d) \subseteq DOMAIN answers
  BY DEF AcksSeen, Unseen, Acks, AnswersTo
<1>2. page'[d].loginState = "REGISTERED" =>
         \E i \in AcksSeen(d)' : answers'[i].value = "REGISTERED"
  <2> SUFFICES ASSUME page'[d].loginState = "REGISTERED"
               PROVE  \E i \in AcksSeen(d)' : answers'[i].value = "REGISTERED"
    OBVIOUS
  <2>1. PICK i \in AcksSeen(d) : answers[i].value = "REGISTERED"
    BY DEF Informed
  <2> QED
    BY <1>1, <2>1
<1>3. \A i \in Unseen(d)' :
         (\A j \in Unseen(d)' : j <= i) => answers'[i].value = state'[d]
  BY <1>1 DEF Informed
<1>4. state'[d] = "NO_SUCH_USER" /\ Unseen(d)' = {} => page'[d].loginState = "REGISTER"
  BY DEF Informed
<1> QED
  BY <1>2, <1>3, <1>4 DEF Informed

\* Who heeds no acknowledgement has seen those it had.
LEMMA NothingHeeded ==
    ASSUME ServerTyped, PagesTyped, NEW c \in Clients, Acts(c), NEW d \in Clients,
           next'[d] = next[d] \/ (d = c /\ \E i \in DOMAIN answers : Hears(c, i))
    PROVE  AcksSeen(d)' = AcksSeen(d) /\ Unseen(d)' = Unseen(d)
<1>1. /\ answers' = answers /\ Acks(d)' = Acks(d) /\ Refusals(d)' = Refusals(d)
  BY ActsSets
<1>2. CASE next'[d] = next[d]
  BY <1>1, <1>2 DEF AcksSeen, Acks, Unseen
<1>3. ASSUME d = c, NEW i \in DOMAIN answers, Hears(c, i)
      PROVE  AcksSeen(d)' = AcksSeen(d) /\ Unseen(d)' = Unseen(d)
  <2>1. HasNext(c, i) /\ answers[i].kind # "login_ack"
    BY <1>3 DEF Hears
  <2>2. AcksSeen(c)' = AcksSeen(c) /\ Unseen(c)' = Unseen(c) \ {i}
    BY <1>1, <1>3, <2>1, Hurries
  <2>3. i \notin Unseen(c)
    BY <2>1 DEF Unseen, Acks, AnswersTo
  <2> QED
    BY <1>3, <2>2, <2>3
<1> QED
  BY <1>2, <1>3

LEMMA OthersAreShown ==
    ASSUME ServerTyped, PagesTyped, NEW c \in Clients, Acts(c), NEW d \in Clients, d # c,
           Titled(d), Informed(d)
    PROVE  Titled(d)' /\ Informed(d)'
<1>1. page'[d] = page[d] /\ next'[d] = next[d]
  BY DEF Acts, Only
<1>2. /\ answers' = answers /\ state' = state
      /\ \A h \in DOMAIN asked : asked'[h] = asked[h]
      /\ \A h \in DOMAIN asked' \ DOMAIN asked : asked'[h].client = c
      /\ \A i \in DOMAIN answers : To(i)' = To(i)
  BY ActsSets
<1>3. AcksSeen(d)' = AcksSeen(d) /\ Unseen(d)' = Unseen(d)
  BY <1>1, NothingHeeded
<1>4. \A h \in DOMAIN asked' : asked'[h].client = d /\ asked'[h].body.kind = "save" =>
         asked'[h].body.title = page[d].greeting
  BY <1>2 DEF Titled
<1>5. Titled(d)'
  BY <1>1, <1>2, <1>3, <1>4, StillTitled
<1>6. Informed(d)'
  BY <1>1, <1>2, <1>3, StillInformed
<1> QED
  BY <1>5, <1>6

\* Nothing is heeded, and the editor has the title it had, if there is one.
LEMMA UnheededIsShown ==
    ASSUME ServerTyped, PagesTyped, NEW c \in Clients, Acts(c), Titled(c), Informed(c),
           FormsGone(c)',
           next'[c] = next[c] \/ (\E i \in DOMAIN answers : Hears(c, i)),
           page'[c].root = "gone" =>
              /\ page[c].root = "gone"
              /\ page'[c].greeting = page[c].greeting /\ page'[c].login_ = page[c].login_
              /\ page'[c].autologin => page[c].autologin,
           \/ page'[c].loginState = page[c].loginState
           \/ page'[c].loginState = "REGISTER"
           \/ page'[c].loginState = "LOGIN" /\ page[c].loginState # "REGISTER",
           \/ Still
           \/ \E body : /\ Sends(c, body)
                        /\ body.kind = "save" => body.title = page[c].greeting
    PROVE  Titled(c)' /\ Informed(c)'
<1>1. /\ answers' = answers /\ state' = state
      /\ \A i \in DOMAIN answers : To(i)' = To(i)
  BY ActsSets
<1>2. AcksSeen(c)' = AcksSeen(c) /\ Unseen(c)' = Unseen(c)
  BY NothingHeeded
<1>3. \A h \in DOMAIN asked' : asked'[h].client = c /\ asked'[h].body.kind = "save" =>
         asked'[h].body.title = page[c].greeting
  <2>1. CASE Still
    BY <2>1 DEF Still, Titled
  <2>2. ASSUME NEW body, Sends(c, body), body.kind = "save" => body.title = page[c].greeting
        PROVE  \A h \in DOMAIN asked' : asked'[h].client = c /\ asked'[h].body.kind = "save" =>
                  asked'[h].body.title = page[c].greeting
    BY <2>2, SavesStillTitled
  <2> QED
    BY <2>1, <2>2
<1>4. Titled(c)'
  <2>1. CASE page'[c].root = "gone"
    BY <1>1, <1>2, <1>3, <2>1, StillTitled
  <2>2. CASE page'[c].root # "gone"
    BY <2>2, NotGoneIsTitled
  <2> QED
    BY <2>1, <2>2
<1>5. Informed(c)'
  BY <1>1, <1>2, StillInformed
<1> QED
  BY <1>4, <1>5

LEMMA HeedsAreShown ==
    ASSUME ServerInv, PagesTyped, NEW c \in Clients, NEW i \in DOMAIN answers,
           Heeds(c, i), FormsGone(c), Bounds(c), Titled(c), Informed(c)
    PROVE  Titled(c)' /\ Informed(c)'
<1>0. ServerTyped /\ AnswersFit
  BY DEF ServerInv
<1>1. /\ HasNext(c, i) /\ answers[i].kind = "login_ack"
      /\ page'[c].login_ = page[c].login_ /\ page'[c].autologin = page[c].autologin
  BY DEF Heeds
<1>2. Acts(c)
  BY DEF Acts, Heeds, Sends
<1>3. /\ Acks(c)' = Acks(c) /\ Refusals(c)' = Refusals(c)
      /\ answers' = answers /\ state' = state
      /\ \A j \in DOMAIN answers : To(j)' = To(j)
  BY <1>0, <1>2, ActsSets
<1>4. /\ AcksSeen(c)' = AcksSeen(c) \cup {i} /\ Unseen(c)' = Unseen(c) \ {i}
      /\ i \in Nat /\ next[c] \in Nat /\ next[c] < i
      /\ \A j \in DOMAIN answers : j < i /\ To(j).client = c => j <= next[c]
  BY <1>0, <1>1, <1>3, Hurries
<1>5. /\ i \in Unseen(c)
      /\ Unseen(c) \subseteq Nat /\ \A j \in Unseen(c) : i <= j
  <2>1. To(i).client = c
    BY <1>1 DEF HasNext
  <2>2. i \in Unseen(c)
    BY <1>1, <1>4, <2>1 DEF Unseen, Acks, AnswersTo, To
  <2>3. Unseen(c) \subseteq Nat
    BY <1>0, SetsAre DEF Unseen
  <2>4. ASSUME NEW j \in Unseen(c)
        PROVE  i <= j
    <3>1. j \in DOMAIN answers /\ To(j).client = c /\ j > next[c] /\ j \in Nat
      BY <2>3 DEF Unseen, Acks, AnswersTo, To
    <3> QED
      BY <1>4, <3>1
  <2> QED
    BY <2>2, <2>3, <2>4
<1>6. \A j \in Unseen(c)' :
         (\A k \in Unseen(c)' : k <= j) => answers'[j].value = state'[c]
  <2> SUFFICES ASSUME NEW j \in Unseen(c)', \A k \in Unseen(c)' : k <= j
               PROVE  answers'[j].value = state'[c]
    OBVIOUS
  <2>1. j \in Unseen(c) /\ \A k \in Unseen(c) : k <= j
    BY <1>4, <1>5
  <2> QED
    BY <1>3, <2>1 DEF Informed
<1>7. Unseen(c)' = {} => answers[i].value = state[c]
  <2> SUFFICES ASSUME Unseen(c)' = {}
               PROVE  answers[i].value = state[c]
    OBVIOUS
  <2>1. \A k \in Unseen(c) : k <= i
    BY <1>4, <1>5
  <2> QED
    BY <1>5, <2>1 DEF Informed
<1>9. ASSUME \/ page'[c].loginState # "REGISTERED"
             \/ page[c].loginState = "REGISTERED" \/ answers[i].value = "REGISTERED",
             answers[i].value = "NO_SUCH_USER" => page'[c].loginState = "REGISTER"
      PROVE  Informed(c)'
  <2>1. page'[c].loginState = "REGISTERED" =>
           \E j \in AcksSeen(c)' : answers'[j].value = "REGISTERED"
    <3>1. CASE answers[i].value = "REGISTERED"
      BY <1>3, <1>4, <3>1
    <3>2. CASE page[c].loginState = "REGISTERED"
      BY <1>3, <1>4, <3>2 DEF Informed
    <3> QED
      BY <1>9, <3>1, <3>2
  <2>2. state'[c] = "NO_SUCH_USER" /\ Unseen(c)' = {} => page'[c].loginState = "REGISTER"
    BY <1>3, <1>7, <1>9
  <2> QED
    BY <1>6, <2>1, <2>2 DEF Informed
<1>8. CASE /\ Still /\ answers[i].value = "LOGGED_IN"
           /\ page'[c].root = "gone" /\ page'[c].greeting = page[c].login_
           /\ page'[c].loginState = page[c].loginState
  <2>1. ~page'[c].autologin
    BY <1>1 DEF Bounds, HasNext
  <2>2. To(i).body.title \in Titles
    <3>1. answers[i].to \in DOMAIN asked /\ To(i).body.kind = "login"
      BY <1>0, <1>1 DEF AnswersFit, ServerTyped
    <3> QED
      BY <1>0, <3>1, Typing DEF To
  <2>3. \E t \in Titles : WasOpened(c, t)'
    <3>1. PICK t \in Titles : t = To(i).body.title
      BY <2>2
    <3>2. PICK j \in AcksSeen(c)' : j = i
      BY <1>4
    <3>3. answers'[j].value = "LOGGED_IN" /\ To(j)'.body.title = t
      BY <1>3, <1>8, <3>1, <3>2
    <3>4. asked'[answers'[j].to].body.title = t
      BY <3>3 DEF To
    <3>5. WasOpened(c, t)'
      BY <3>2, <3>3, <3>4 DEF WasOpened
    <3> QED
      BY <3>5
  <2>4. \A h \in DOMAIN asked' : asked'[h].client = c /\ asked'[h].body.kind = "save" =>
           asked'[h].body.title = page'[c].greeting
    <3>1. asked' = asked
      BY <1>8 DEF Still
    <3>2. ASSUME NEW h \in DOMAIN asked, asked[h].client = c, asked[h].body.kind = "save"
          PROVE  asked[h].body.title = page[c].login_
      <4>1. page[c].root = "gone"
        BY <3>2 DEF FormsGone
      <4> QED
        BY <3>2, <4>1 DEF Titled
    <3> QED
      BY <1>8, <3>1, <3>2
  <2>5. Titled(c)'
    BY <1>1, <1>8, <2>1, <2>3, <2>4 DEF Titled
  <2>6. Informed(c)'
    BY <1>8, <1>9
  <2> QED
    BY <2>5, <2>6
<1>10. AcksSeen(c) \subseteq AcksSeen(c)'
  BY <1>4
<1>11. CASE /\ page[c].loginState = "REGISTER"
            /\ SameScreen(c) /\ page'[c].greeting = page[c].greeting
            /\ Sends(c, LoginBody(page[c].login_, page[c].password_))
  <2>1. PICK body : Sends(c, body) /\ body.kind = "login"
    BY <1>11 DEF LoginBody
  <2>2. page'[c].root = page[c].root /\ page'[c].loginState = "REGISTER"
    BY <1>11 DEF SameScreen
  <2>3. \A h \in DOMAIN asked' : asked'[h].client = c /\ asked'[h].body.kind = "save" =>
           asked'[h].body.title = page[c].greeting
    BY <2>1, SavesStillTitled
  <2>4. Titled(c)'
    BY <1>1, <1>3, <1>10, <1>11, <2>2, <2>3, StillTitled
  <2>5. Informed(c)'
    BY <1>9, <2>2
  <2> QED
    BY <2>4, <2>5
<1>12. CASE /\ Still /\ answers[i].value # "LOGGED_IN"
            /\ page'[c].loginState = ScreenAfter(answers[i].value, page[c].loginState)
            /\ page'[c].root = IF page[c].root = "router" THEN "form" ELSE page[c].root
            /\ page'[c].greeting = page[c].greeting
  <2>1. page'[c].root = "gone" => page[c].root = "gone"
    BY <1>12
  <2>2. asked' = asked
    BY <1>12 DEF Still
  <2>3. \A h \in DOMAIN asked' : asked'[h].client = c /\ asked'[h].body.kind = "save" =>
           asked'[h].body.title = page[c].greeting
    BY <2>2 DEF Titled
  <2>4. Titled(c)'
    BY <1>1, <1>3, <1>10, <1>12, <2>1, <2>3, StillTitled
  <2>5. /\ page'[c].loginState = "REGISTERED" => answers[i].value = "REGISTERED"
        /\ answers[i].value = "NO_SUCH_USER" => page'[c].loginState = "REGISTER"
    BY <1>12 DEF ScreenAfter
  <2>6. Informed(c)'
    BY <1>9, <2>5
  <2> QED
    BY <2>4, <2>6
<1> QED
  BY <1>8, <1>11, <1>12 DEF Heeds

LEMMA StepsAreShown ==
    ASSUME ServerInv, PageInv, PageInv', NEW c \in Clients, Steps(c), Titled(c), Informed(c)
    PROVE  Titled(c)' /\ Informed(c)'
<1>0. /\ ServerTyped /\ PagesTyped /\ FormsGone(c) /\ FormsGone(c)' /\ Bounds(c)
  BY DEF ServerInv, PageInv
<1>1. Acts(c)
  BY StepsAct
<1>2. CASE Moves(c)
  <2>1. /\ Still /\ next'[c] = next[c]
        /\ page'[c].root = "gone" => page[c].root = "gone"
        /\ page'[c].greeting = page[c].greeting /\ page'[c].login_ = page[c].login_
        /\ page'[c].autologin = page[c].autologin
    BY <1>2 DEF Moves, Moved, Like, Still
  <2>2. \/ page'[c].loginState = page[c].loginState
        \/ page'[c].loginState = "REGISTER"
        \/ page'[c].loginState = "LOGIN" /\ page[c].loginState # "REGISTER"
    BY <1>2 DEF Moves, Moved
  <2> QED
    BY <1>0, <1>1, <2>1, <2>2, UnheededIsShown
<1>3. CASE Saves(c)
  <2>1. /\ next'[c] = next[c] /\ Like(page'[c], page[c]) /\ SameScreen(c)
        /\ page[c].root = "gone"
    BY <1>0, <1>3 DEF Saves, SameNext, FormsGone
  <2>2. \/ Still
        \/ \E body : Sends(c, body) /\ (body.kind = "save" => body.title = page[c].greeting)
    <3>1. SaveBody(c).title = page[c].greeting
      BY <2>1 DEF SaveBody, Titled
    <3>2. CASE Sends(c, SaveBody(c))
      <4>1. PICK body : body = SaveBody(c)
        OBVIOUS
      <4> QED
        BY <3>1, <3>2, <4>1
    <3> QED
      BY <1>3, <3>2 DEF Saves
  <2> QED
    BY <1>0, <1>1, <2>1, <2>2, UnheededIsShown DEF Like, SameScreen
<1>4. CASE Connects(c)
  <2>1. /\ next'[c] = next[c] /\ SameScreen(c) /\ page'[c].greeting = page[c].greeting
        /\ ~page'[c].autologin
        /\ ~page[c].autologin => page'[c].login_ = page[c].login_
    BY <1>4 DEF Connects, SameNext
  <2>2. page[c].root = "gone" => ~page[c].autologin
    BY DEF Titled
  <2>3. \E body : Sends(c, body) /\ (body.kind = "save" => body.title = page[c].greeting)
    <3>1. CASE page[c].autologin
      <4>1. PICK body : Sends(c, body) /\ body.kind = "login"
        BY <1>4, <3>1 DEF Connects, LoginBody
      <4> QED
        BY <4>1
    <3>2. CASE ~page[c].autologin
      <4>1. PICK body : Sends(c, body) /\ body = [kind |-> "syn"]
        BY <1>4, <3>2 DEF Connects
      <4>2. body.kind = "syn"
        BY <4>1
      <4> QED
        BY <4>1, <4>2
    <3> QED
      BY <3>1, <3>2
  <2> QED
    BY <1>0, <1>1, <2>1, <2>2, <2>3, UnheededIsShown DEF SameScreen
<1>5. CASE Submits(c)
  <2>1. /\ next'[c] = next[c] /\ SameScreen(c) /\ page[c].root # "gone"
    BY <1>5 DEF Submits, SameNext
  <2>2. \/ Still
        \/ \E body : Sends(c, body) /\ (body.kind = "save" => body.title = page[c].greeting)
    <3>1. CASE Sends(c, LoginBody(page[c].form.login, page[c].form.pass))
      <4>1. PICK body : Sends(c, body) /\ body.kind = "login"
        BY <3>1 DEF LoginBody
      <4> QED
        BY <4>1
    <3> QED
      BY <1>5, <3>1 DEF Submits
  <2> QED
    BY <1>0, <1>1, <2>1, <2>2, UnheededIsShown DEF SameScreen
<1>6. ASSUME NEW i \in DOMAIN page[c].waiting, Puts(c, i)
      PROVE  Titled(c)' /\ Informed(c)'
  <2>1. /\ next'[c] = next[c] /\ SameScreen(c) /\ page'[c].greeting = page[c].greeting
        /\ page'[c].autologin = page[c].autologin /\ page'[c].login_ = page[c].login_
        /\ Sends(c, page[c].waiting[i])
    BY <1>6 DEF Puts, SameNext
  <2>2. page[c].waiting[i].kind = "login"
    <3>1. page[c].waiting[i] \in Logins
      BY <1>0, PageIs DEF Pages
    <3> QED
      BY <3>1 DEF Logins
  <2>3. \E body : Sends(c, body) /\ (body.kind = "save" => body.title = page[c].greeting)
    <3>1. PICK body : body = page[c].waiting[i]
      OBVIOUS
    <3> QED
      BY <2>1, <2>2, <3>1
  <2> QED
    BY <1>0, <1>1, <2>1, <2>3, UnheededIsShown DEF SameScreen
<1>7. ASSUME NEW i \in DOMAIN answers, Hears(c, i)
      PROVE  Titled(c)' /\ Informed(c)'
  <2>1. /\ Still /\ Like(page'[c], page[c])
        /\ page'[c].root = page[c].root /\ page'[c].loginState = page[c].loginState
    BY <1>7 DEF Hears
  <2> QED
    BY <1>0, <1>1, <1>7, <2>1, UnheededIsShown DEF Like
<1>8. ASSUME NEW i \in DOMAIN answers, Heeds(c, i)
      PROVE  Titled(c)' /\ Informed(c)'
  BY <1>0, <1>8, HeedsAreShown
<1> QED
  BY <1>2, <1>3, <1>4, <1>5, <1>6, <1>7, <1>8 DEF Steps

LEMMA AckIsShown ==
    ASSUME ServerInv, PageInv, UNCHANGED <<page, next, user>>,
           NEW h \in DOMAIN asked, NEW v \in Verdicts, Acknowledges(h, v),
           NEW d \in Clients, Titled(d), Informed(d)
    PROVE  Titled(d)' /\ Informed(d)'
<1>0. /\ ServerTyped /\ PagesTyped /\ Bounds(d)
  BY DEF ServerInv, PageInv
<1>n. PICK n \in Nat : n = Len(answers) + 1
  BY <1>0, Typing
<1>1. /\ \A i \in DOMAIN answers : answers'[i] = answers[i] /\ To(i)' = To(i)
      /\ answers'[n].value = v /\ asked' = asked
  <2>1. Answered(n, h, v)
    BY <1>0, <1>n, AckAnswers
  <2> QED
    BY <2>1 DEF Answered
<1>2. page' = page /\ next' = next
  OBVIOUS
<1>3. /\ n \notin Acks(d)
      /\ d # asked[h].client => Acks(d)' = Acks(d)
      /\ d = asked[h].client => Acks(d)' = Acks(d) \cup {n}
  BY <1>0, <1>n, AckSets
<1>4. n > next[d] /\ next[d] \in Nat
  BY <1>0, <1>n, Typing, PageIs DEF Bounds
<1>5. AcksSeen(d)' = AcksSeen(d)
  <2>1. ~(n <= next[d])
    BY <1>4
  <2> QED
    BY <1>2, <1>3, <2>1 DEF AcksSeen, Acks
<1>6. Titled(d)'
  <2>1. \A k \in DOMAIN asked' : asked'[k].client = d /\ asked'[k].body.kind = "save" =>
           asked'[k].body.title = page[d].greeting
    BY <1>1 DEF Titled
  <2> QED
    BY <1>1, <1>2, <1>5, <2>1, StillTitled
<1>7. Informed(d)'
  <2>1. CASE d # asked[h].client
    <3>1. state'[d] = state[d]
      BY <1>0, <2>1 DEF Acknowledges, ServerTyped
    <3>2. Unseen(d)' = Unseen(d)
      BY <1>2, <1>3, <2>1 DEF Unseen
    <3> QED
      BY <1>1, <1>2, <1>5, <3>1, <3>2, StillInformed
  <2>2. CASE d = asked[h].client
    <3>1. state'[d] = v
      BY <1>0, <2>2 DEF Acknowledges, ServerTyped
    <3>2. Unseen(d)' = Unseen(d) \cup {n}
      BY <1>2, <1>3, <1>4, <2>2 DEF Unseen
    <3>3. \A i \in Unseen(d)' :
             (\A j \in Unseen(d)' : j <= i) => answers'[i].value = state'[d]
      <4> SUFFICES ASSUME NEW i \in Unseen(d)', n <= i
                   PROVE  answers'[i].value = state'[d]
        BY <3>2
      <4>1. Len(answers) \in Nat /\ Unseen(d) \subseteq 1 .. Len(answers)
        BY <1>0, SetsAre DEF Unseen
      <4>2. i = n
        BY <1>n, <3>2, <4>1
      <4> QED
        BY <1>1, <3>1, <4>2
    <3>4. page'[d].loginState = "REGISTERED" =>
             \E i \in AcksSeen(d)' : answers'[i].value = "REGISTERED"
      <4>1. AcksSeen(d) \subseteq DOMAIN answers
        BY DEF AcksSeen, AnswersTo
      <4> QED
        BY <1>1, <1>2, <1>5, <4>1 DEF Informed
    <3> QED
      BY <3>2, <3>3, <3>4 DEF Informed
  <2> QED
    BY <2>1, <2>2
<1> QED
  BY <1>6, <1>7

LEMMA SettlesAreShown ==
    ASSUME ServerInv, PageInv, UNCHANGED <<page, next, user>>,
           NEW h \in DOMAIN asked, Settles(h), NEW d \in Clients, Titled(d), Informed(d)
    PROVE  Titled(d)' /\ Informed(d)'
<1>0. ServerTyped
  BY DEF ServerInv
<1>1. /\ Acks(d)' = Acks(d)
      /\ \A i \in DOMAIN answers : answers'[i] = answers[i] /\ To(i)' = To(i)
  BY <1>0, SettleSets
<1>2. asked' = asked /\ state' = state
  BY DEF Settles
<1>3. AcksSeen(d)' = AcksSeen(d) /\ Unseen(d)' = Unseen(d)
  BY <1>1 DEF AcksSeen, Acks, Unseen
<1>4. \A k \in DOMAIN asked' : asked'[k].client = d /\ asked'[k].body.kind = "save" =>
         asked'[k].body.title = page[d].greeting
  BY <1>2 DEF Titled
<1>5. Titled(d)'
  BY <1>1, <1>3, <1>4, StillTitled
<1>6. Informed(d)'
  BY <1>1, <1>2, <1>3, StillInformed
<1> QED
  BY <1>5, <1>6

LEMMA ShownAtFirst ==
    ASSUME Init, NEW c \in Clients
    PROVE  Shown(c)
<1>1. asked = <<>> /\ answers = <<>> /\ state[c] = "INIT"
  BY DEF Init, Server!Init
<1>2. DOMAIN asked = {} /\ DOMAIN answers = {}
  BY <1>1
<1>3. Unseen(c) = {}
  BY <1>2 DEF Unseen, Acks, AnswersTo
<1>4. page[c].loginState = "LOGIN" /\ page[c].root = "router"
  BY DEF Init, NewPage
<1>5. Titled(c)
  BY <1>2, <1>4 DEF Titled
<1>6. Informed(c)
  BY <1>1, <1>3, <1>4 DEF Informed
<1> QED
  BY <1>5, <1>6, PatientAtFirst DEF Shown
-----------------------------------------------------------------------------
(* Both users.                                                             *)

LEMMA StepsPatiently ==
    ASSUME ServerInv, PageInv, PageInv', NEW c \in Clients, Steps(c), PatientInv
    PROVE  PatientInv'
<1>0. /\ ServerTyped /\ PagesTyped
      /\ \A d \in Clients : Titled(d) /\ Informed(d) /\ (user[d].hasty \/ Patient(d))
  BY DEF ServerInv, PageInv, PatientInv, Shown
<1>1. Acts(c)
  BY StepsAct
<1>2. Shown(c)'
  <2>1. Titled(c)' /\ Informed(c)'
    BY <1>0, StepsAreShown
  <2>2. ASSUME ~user'[c].hasty
        PROVE  Patient(c)'
    <3>1. CASE Submits(c)
      BY <1>0, <2>2, <3>1, SubmitsPatiently
    <3>2. CASE ~Submits(c)
      <4>1. ~user[c].hasty
        <5>1. CASE Moves(c)
          BY <2>2, <5>1 DEF Moves, Moved
        <5>2. CASE Saves(c) \/ Connects(c)
          BY <2>2, <5>2 DEF Saves, Connects, SameUser
        <5>3. CASE \E i \in DOMAIN page[c].waiting : Puts(c, i)
          BY <2>2, <5>3 DEF Puts, SameUser
        <5>4. CASE \E i \in DOMAIN answers : Hears(c, i) \/ Heeds(c, i)
          BY <2>2, <5>4 DEF Hears, Heeds, SameUser
        <5> QED
          BY <3>2, <5>1, <5>2, <5>3, <5>4 DEF Steps
      <4>2. Patient(c)
        BY <1>0, <4>1
      <4> QED
        BY <1>0, <2>2, <3>2, <4>2, MovesPatiently, SavesPatiently, LinksPatiently,
           PutsPatiently, HearsPatiently, HeedsPatiently DEF Steps
    <3> QED
      BY <3>1, <3>2
  <2> QED
    BY <2>1, <2>2 DEF Shown
<1>3. ASSUME NEW d \in Clients, d # c
      PROVE  Shown(d)'
  <2>1. user'[d] = user[d]
    BY <1>1, <1>3 DEF Acts, Only
  <2>2. Titled(d)' /\ Informed(d)'
    BY <1>0, <1>1, <1>3, OthersAreShown
  <2>3. Patient(d) => Patient(d)'
    BY <1>0, <1>1, <1>3, OthersArePatient
  <2> QED
    BY <1>0, <2>1, <2>2, <2>3 DEF Shown
<1> QED
  BY <1>2, <1>3 DEF PatientInv

LEMMA ServingPatiently ==
    ASSUME ServerInv, PageInv, NEW h \in DOMAIN asked, Serve(h), PatientInv
    PROVE  PatientInv'
<1>0. /\ ServerTyped /\ ShownAfterAck
      /\ \A d \in Clients : Titled(d) /\ Informed(d) /\ (user[d].hasty \/ Patient(d))
  BY DEF ServerInv, PatientInv, Shown
<1>1. UNCHANGED <<page, next, user>>
  BY DEF Serve
<1>2. ASSUME NEW d \in Clients
      PROVE  Shown(d)'
  <2>1. Titled(d)' /\ Informed(d)'
    BY <1>0, <1>1, ServeForms, AckIsShown, SettlesAreShown
  <2>2. Patient(d) => Patient(d)'
    BY <1>0, <1>1, ServeForms, AckPatiently, SettlesPatiently
  <2>3. user'[d] = user[d]
    BY <1>1
  <2> QED
    BY <1>0, <2>1, <2>2, <2>3 DEF Shown
<1> QED
  BY <1>2 DEF PatientInv

LEMMA StutterPatiently ==
    ASSUME PagesTyped, ServerTyped, UNCHANGED vars, PatientInv
    PROVE  PatientInv'
<1>1. Still /\ page' = page /\ next' = next /\ user' = user
  BY DEF vars, serverVars, Still
<1>2. ASSUME NEW c \in Clients
      PROVE  Shown(c)'
  <2>1. Titled(c) /\ Informed(c) /\ (user[c].hasty \/ Patient(c))
    BY DEF PatientInv, Shown
  <2>2. /\ LoginsAsked(c)' = LoginsAsked(c) /\ Acks(c)' = Acks(c) /\ Served(c)' = Served(c)
        /\ \A i \in DOMAIN answers : To(i)' = To(i)
    BY <1>1, StillSame
  <2>3. AcksSeen(c)' = AcksSeen(c) /\ Unseen(c)' = Unseen(c) /\ Unserved(c)' = Unserved(c)
    BY <1>1, <2>2 DEF AcksSeen, Acks, Unseen, Unserved
  <2>4. Alike(c) /\ UsersKept
    BY <1>1, <2>2, <2>3 DEF Alike, Like, UsersKept, Still
  <2>5. Patient(c) => Patient(c)'
    BY <1>1, <2>4, AlikeIsTruthful DEF Patient, Still
  <2>6. \A h \in DOMAIN asked' : asked'[h].client = c /\ asked'[h].body.kind = "save" =>
           asked'[h].body.title = page[c].greeting
    BY <1>1, <2>1 DEF Titled, Still
  <2>7. Titled(c)'
    BY <1>1, <2>1, <2>2, <2>3, <2>6, StillTitled DEF Still
  <2>8. Informed(c)'
    BY <1>1, <2>1, <2>3, StillInformed DEF Still
  <2> QED
    BY <1>1, <2>1, <2>5, <2>7, <2>8 DEF Shown
<1> QED
  BY <1>2 DEF PatientInv

\* The inductive invariant. Of a user who waited for the answer to the login
\* before the last one: at most one login of the page is under way. Of every
\* user, as nothing in the page makes anybody wait: an editor has one title, and
\* the page shows what the last acknowledgement said.
THEOREM PatientInvariance == Spec => [](ServerInv /\ PageInv /\ PatientInv)
<1> DEFINE IInv == ServerInv /\ PageInv /\ PatientInv
<1>1. Init => IInv
  BY Initially, ShownAtFirst DEF PatientInv
<1>2. ASSUME IInv, Next
      PROVE  IInv'
  <2>1. ASSUME NEW c \in Clients, User(c) \/ Page(c)
        PROVE  IInv'
    BY <1>2, <2>1, Stepping, StepsKeep, StepsPatiently
  <2>2. ASSUME NEW h \in DOMAIN asked, Serve(h)
        PROVE  IInv'
    BY <1>2, <2>2, ServingKeeps, ServingPatiently
  <2> QED
    BY <1>2, <2>1, <2>2 DEF Next
<1>3. ASSUME IInv, UNCHANGED vars
      PROVE  IInv'
  BY <1>3, StutterKeeps, StutterPatiently DEF ServerInv, PageInv
<1> QED
  BY <1>1, <1>2, <1>3, PTL DEF Spec

LEMMA TruthShown ==
    ASSUME ServerInv, PageInv, PatientInv
    PROVE  PageIsTruthful
<1>0. \A c \in Clients : /\ Titled(c) /\ Informed(c) /\ FormsGone(c)
                         /\ user[c].hasty \/ Truthful(c)
  BY DEF PatientInv, Shown, Patient, PageInv
<1>1. EditorIsOfOpenedTitle
  BY <1>0 DEF EditorIsOfOpenedTitle, FormsGone, Titled, Truthful
<1>2. SavesGoToOpenedTitles
  <2>1. \A h \in DOMAIN asked : asked[h].client \in Clients
    BY Typing DEF ServerInv
  <2> QED
    BY <1>0, <2>1 DEF SavesGoToOpenedTitles, FormsGone, Titled
<1>3. ReadyMeansRegistered
  <2>1. ASSUME NEW c \in Clients, page[c].loginState = "REGISTERED"
        PROVE  \E h \in LoginsAsked(c) : users[asked[h].body.title] = asked[h].body.password
    <3>1. PICK i \in AcksSeen(c) : answers[i].value = "REGISTERED"
      BY <1>0, <2>1 DEF Informed
    <3>2. /\ i \in DOMAIN answers /\ answers[i].kind = "login_ack"
          /\ To(i).client = c /\ answers[i].to \in DOMAIN asked
      BY DEF AcksSeen, AnswersTo, To, ServerInv, ServerTyped
    <3>3. To(i).body.kind = "login" /\ users[To(i).body.title] = To(i).body.password
      BY <3>1, <3>2 DEF ServerInv, AnswersFit
    <3>4. PICK h \in DOMAIN asked : h = answers[i].to
      BY <3>2
    <3>5. asked[h] = To(i)
      BY <3>4 DEF To
    <3>6. h \in LoginsAsked(c)
      BY <3>2, <3>3, <3>5 DEF LoginsAsked
    <3> QED
      BY <3>3, <3>5, <3>6
  <2>2. ASSUME NEW c \in Clients, page[c].loginState = "REGISTERED"
        PROVE  user[c].hasty \/ users[page[c].login_] = page[c].password_
    BY <1>0, <2>2 DEF Truthful
  <2> QED
    BY <2>1, <2>2 DEF ReadyMeansRegistered
<1> QED
  BY <1>1, <1>2, <1>3 DEF PageIsTruthful

\* What the page says and does about a title is so, through late answers,
\* forms shown again, frames put off by a timer and resends, for any user: the
\* editor is there only once a title was opened, saves go to the title over it,
\* and "ready" is said to who created a title. That the editor is of a title
\* that was opened, and that the title called ready is the one of the page, is
\* so for a user whose last login did not overtake the answer to another.
THEOREM PageTruthful == Spec => []PageIsTruthful
  BY PatientInvariance, TruthShown, PTL

\* The server registers a title for the second login of a session that was
\* told NO_SUCH_USER. If one login of its page is under way at a time, the page
\* shows the create form then, so the title is one its user asked to create:
\* neither a typo in the login form nor the login that Websocket.js resends by
\* itself creates a title. A hasty user may have sent it from another form.
LEMMA OnRequest ==
    ASSUME ServerInv, PageInv, PatientInv, [Next]_vars,
           NEW t \in Titles, users'[t] # users[t]
    PROVE  \E c \in Clients :
              \/ \E w \in user[c].wishes : w.title = t
              \/ user[c].hasty /\ \E h \in LoginsAsked(c) : asked[h].body.title = t
<1>0. ServerTyped /\ ShownAfterAck
  BY DEF ServerInv
<1>1. ~(UNCHANGED vars)
  BY DEF vars, serverVars
<1>2. ASSUME NEW c \in Clients, User(c) \/ Page(c)
      PROVE  FALSE
  <2>1. Acts(c)
    BY <1>2, Stepping, StepsAct
  <2> QED
    BY <1>0, <2>1, ActsSets
<1>3. PICK h \in DOMAIN asked : Serve(h)
  BY <1>1, <1>2 DEF Next
<1>4. ~Settles(h)
  BY DEF Settles
<1>5. PICK v \in Verdicts : Acknowledges(h, v)
  BY <1>0, <1>3, <1>4, ServeForms
<1>6. PICK c \in Clients : c = asked[h].client
  BY <1>0, Typing
<1>7. /\ stage[h] = "asked" /\ asked[h].body.kind = "login"
      /\ state[c] = "NO_SUCH_USER" /\ t = asked[h].body.title
  BY <1>0, <1>5, <1>6 DEF Acknowledges, ServerTyped
<1>8. h \in Unserved(c) /\ h \in LoginsAsked(c)
  BY <1>6, <1>7 DEF Unserved, LoginsAsked, Served
<1>9. Informed(c) /\ (user[c].hasty \/ Patient(c))
  BY DEF PatientInv, Shown
<1>10. CASE Patient(c)
  <2>1. OneUnderWay(c) /\ Wished(c)
    BY <1>10 DEF Patient
  <2>2. asked[h].body = Current(c) /\ Unseen(c) = {} /\ ~Idle(c)
    BY <1>8, <2>1 DEF OneUnderWay, Idle
  <2>3. t = page[c].login_
    BY <1>7, <2>2 DEF Current, LoginBody
  <2>4. page[c].loginState = "REGISTER"
    BY <1>7, <1>9, <2>2 DEF Informed
  <2> QED
    BY <2>1, <2>2, <2>3, <2>4 DEF Wished
<1>11. CASE user[c].hasty
  BY <1>7, <1>8, <1>11
<1> QED
  BY <1>9, <1>10, <1>11

\* A title is created only for a user who asked for it in the create form, or
\* who was hasty and tried to open it.
THEOREM CreatedOnRequest == Spec => CreatedOnlyWhenAsked
<1>1. ASSUME ServerInv, PageInv, PatientInv, [Next]_vars
      PROVE  [\A t \in Titles :
                 users'[t] # users[t] =>
                     \E c \in Clients :
                        \/ \E w \in user[c].wishes : w.title = t
                        \/ /\ user[c].hasty
                           /\ \E h \in LoginsAsked(c) : asked[h].body.title = t]_vars
  BY <1>1, OnRequest
<1> QED
  BY <1>1, PatientInvariance, PTL DEF Spec, CreatedOnlyWhenAsked
=============================================================================
