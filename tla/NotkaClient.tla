----------------------------- MODULE NotkaClient -----------------------------
(***************************************************************************)
(* The browser page of Notka and its user: the login and create forms of   *)
(* FormLogin.js, the editor of FormNotka.js and the web socket code of      *)
(* Websocket.js, one page per client, composed with NotkaStore as the       *)
(* server. A page and its user run on one JavaScript thread: each handler   *)
(* (of a click, a key, a timer, a socket event) is one step.                *)
(*                                                                         *)
(* A frame that is sent is Server!asked at once: the server takes           *)
(* messages in any order, so a channel in front of it would add nothing.    *)
(* Answers are read from Server!answers in order.                           *)
(***************************************************************************)
EXTENDS Naturals, FiniteSets, Sequences, SequencesExt

CONSTANTS Clients, Titles, Passwords, Texts,
          EmptyTitle,     \* the title "", also an empty input box
          EmptyPassword,  \* the password "", also an empty input box
          NoPassword, NoText,
          DefaultText,    \* the text the editor starts with
          Links,          \* what follows notka.online/ when a page is opened
          MaxSubmits,     \* bound: times a user submits a login form
          MaxHurry,       \* bound: steps at the forms while an answer is due
          MaxSaves,       \* bound: clicks on Save and times it gets the focus
          MaxEdits        \* bound: times a user edits the text

ASSUME ClientAssumption ==
    /\ EmptyTitle \in Titles /\ EmptyPassword \in Passwords
    /\ NoPassword \notin Passwords /\ NoText \notin Texts \cup {DefaultText}
    /\ Links \subseteq [login : Titles, pass : Passwords]
    /\ MaxSubmits \in Nat /\ MaxHurry \in Nat /\ MaxSaves \in Nat /\ MaxEdits \in Nat

Bodies ==
    [kind : {"login"}, title : Titles, password : Passwords]
    \cup [kind : {"save"}, title : Titles, text : Texts \cup {DefaultText}]
    \cup [kind : {"syn"}]

VARIABLES asked, stage, state, users, notkas, answers,  \* the server
          page,  \* the JavaScript state and the document of each client
          next,  \* how many of the answers each client has looked at
          user   \* history: what each user did and asked for

serverVars == <<asked, stage, state, users, notkas, answers>>
vars == <<serverVars, page, next, user>>

Server == INSTANCE NotkaStore WITH Texts <- Texts \cup {DefaultText}

Blank == [login |-> EmptyTitle, pass |-> EmptyPassword]

\* A page that was opened with a link; login_, password_, loginState and
\* notka are the variables of that name, form is this.state of FormLogin,
\* box what its inputs show, waiting the frames of send_wait, blurs the
\* timers of handleBlur.
NewPage(link) ==
    [ws |-> "connecting", root |-> "router", loginState |-> "LOGIN",
     form |-> link, box |-> Blank,
     link |-> link, autologin |-> link.login # EmptyTitle,
     login_ |-> EmptyTitle, password_ |-> EmptyPassword, waiting |-> <<>>,
     greeting |-> EmptyTitle, editor |-> FALSE, notka |-> DefaultText,
     blurs |-> 0]

\* Nobody can open the empty title, so no page stores a text there. A bound:
\* at first no text is the one the editor starts with.
Init ==
    /\ Server!Init
    /\ users[EmptyTitle] = NoPassword /\ notkas[EmptyTitle] = NoText
    /\ \A t \in Titles : notkas[t] # DefaultText
    /\ page \in [Clients -> {NewPage(link) : link \in Links}]
    /\ next = [c \in Clients |-> 0]
    /\ user = [c \in Clients |->
                 [submits |-> 0, saves |-> 0, blurs |-> 0, edits |-> 0,
                  wishes |-> {}, hurry |-> 0, hasty |-> FALSE]]

-----------------------------------------------------------------------------
(* Updates                                                                 *)

\* The page of c is p now.
Become(c, p) == page' = [page EXCEPT ![c] = p]

Transmit(c, bodies) ==
    /\ asked' = asked \o [i \in DOMAIN bodies |->
                             [client |-> c, body |-> bodies[i]]]
    /\ stage' = stage \o [i \in DOMAIN bodies |-> "asked"]
    /\ UNCHANGED <<state, users, notkas, answers>>

\* websocket.send: what is sent on a socket that has closed is discarded.
Send(c, body) ==
    IF page[c].ws = "open" THEN Transmit(c, <<body>>) ELSE UNCHANGED serverVars

LoginBody(login, pass) == [kind |-> "login", title |-> login, password |-> pass]

\* tx_msg_login, with send_wait: a frame for a socket that is not open is
\* put off with a timer. The page is p but for that.
tx_msg_login(c, login, pass, p) ==
    LET sent == [p EXCEPT !.login_ = login, !.password_ = pass]
        body == LoginBody(login, pass)
    IN /\ Send(c, body)
       /\ Become(c, IF p.ws = "open" THEN sent
                    ELSE [sent EXCEPT !.waiting = Append(@, body)])

\* updateLoginState(s) and ReactDOM.render(<FormLogin login={login}/>, root).
\* The first time a new FormLogin replaces the router's; then it is updated:
\* it keeps this.state, and inputs survive only if they stay where they are.
\* With root gone from the document the render throws.
Rendered(p, s, login) ==
    CASE p.root = "router" ->
            [p EXCEPT !.loginState = s, !.root = "form", !.box = Blank,
                      !.form = [Blank EXCEPT !.login = login]]
      [] p.root = "form" ->
            [p EXCEPT !.loginState = s,
                      !.box = IF s = p.loginState THEN p.box ELSE Blank]
      [] OTHER -> [p EXCEPT !.loginState = s]

-----------------------------------------------------------------------------
(* The user                                                                *)

LoginsAsked(c) ==
    {h \in DOMAIN asked : asked[h].client = c /\ asked[h].body.kind = "login"}

AnswersTo(c, kind) ==
    {i \in DOMAIN answers : /\ asked[answers[i].to].client = c
                            /\ answers[i].kind = kind}

\* Login acknowledgements the page of c has handled.
AcksSeen(c) == {i \in AnswersTo(c, "login_ack") : i <= next[c]}

\* A login of this page has not been answered yet.
AnswerDue(c) ==
    \/ page[c].autologin
    \/ page[c].waiting # <<>>
    \/ Cardinality(LoginsAsked(c)) > Cardinality(AcksSeen(c))

\* The login forms are there, and work whether or not an answer is due.
AtForms(c) ==
    /\ page[c].root # "gone"
    /\ AnswerDue(c) => user[c].hurry < MaxHurry

\* How often the user has acted in a hurry, if this is a step at the forms.
Hurry(c) == user[c].hurry + IF AnswerDue(c) THEN 1 ELSE 0

\* The input boxes of each screen, and its links and buttons.
Inputs(s) == CASE s = "LOGIN"      -> {"login"}
               [] s = "LOGIN_PASS" -> {"pass"}
               [] s = "REGISTER"   -> {"login", "pass"}
               [] OTHER            -> {}

Controls(s) == CASE s = "LOGIN"      -> {"go", "create"}
                 [] s = "LOGIN_FAIL" -> {"login now", "create"}
                 [] s = "REGISTERED" -> {"login now"}
                 [] s \in {"LOGIN_PASS", "REGISTER"} -> {"go"}
                 [] OTHER            -> {}

\* FormLogin.handleChange: a key in an input box.
handleChange(c, name, value) ==
    /\ AtForms(c)
    /\ name \in Inputs(page[c].loginState)
    /\ user[c].submits < MaxSubmits
    /\ page[c].box[name] # value
    /\ page' = [page EXCEPT ![c].box[name] = value, ![c].form[name] = value]
    /\ user' = [user EXCEPT ![c].hurry = Hurry(c)]
    /\ UNCHANGED <<serverVars, next>>

\* What handleSubmit does to the form and its inputs: the title is cleared
\* in its box only; the password box is copied, but after it was read.
Submitted(p) ==
    CASE p.loginState = "LOGIN"      -> [p EXCEPT !.box.login = EmptyTitle]
      [] p.loginState = "LOGIN_PASS" -> [p EXCEPT !.form.pass = p.box.pass]
      [] OTHER                       -> p

\* FormLogin.handleSubmit. A wish is a title the user asked to create, with
\* the password that is in the box. A user is hasty who did not wait for the
\* answer to an earlier login: nothing in the page makes anybody wait.
handleSubmit(c) ==
    LET p == page[c]
        wish == [title |-> p.form.login, password |-> p.box.pass]
    IN /\ AtForms(c)
       /\ "go" \in Controls(p.loginState)
       /\ user[c].submits < MaxSubmits
       /\ tx_msg_login(c, p.form.login, p.form.pass, Submitted(p))
       /\ user' = [user EXCEPT ![c].submits = @ + 1, ![c].hurry = Hurry(c),
                               ![c].wishes = IF p.loginState = "REGISTER"
                                             THEN @ \cup {wish} ELSE @,
                               ![c].hasty = AnswerDue(c)]
       /\ UNCHANGED next

\* FormLogin.handleRegisterClick: "create one".
handleRegisterClick(c) ==
    /\ AtForms(c)
    /\ "create" \in Controls(page[c].loginState)
    /\ Become(c, Rendered(page[c], "REGISTER", EmptyTitle))
    /\ user' = [user EXCEPT ![c].hurry = Hurry(c), ![c].hasty = @ \/ AnswerDue(c)]
    /\ UNCHANGED <<serverVars, next>>

\* FormLogin.handleLoginNowClick: "Try again", "Try it now".
handleLoginNowClick(c) ==
    /\ AtForms(c)
    /\ "login now" \in Controls(page[c].loginState)
    /\ page' = [page EXCEPT ![c].loginState = "LOGIN", ![c].form = Blank,
                            ![c].box = Blank]
    /\ user' = [user EXCEPT ![c].hurry = Hurry(c)]
    /\ UNCHANGED <<serverVars, next>>

\* FormNotka.render: the text, what changes it, and the Save button are there.
InEditor(c) == page[c].editor

\* FormNotka.handleChange: the user edits the text.
Edit(c, text) ==
    /\ InEditor(c)
    /\ user[c].edits < MaxEdits
    /\ page[c].notka # text
    /\ page' = [page EXCEPT ![c].notka = text]
    /\ user' = [user EXCEPT ![c].edits = @ + 1]
    /\ UNCHANGED <<serverVars, next>>

\* tx_msg_save_req: the text of the editor, under the title last sent.
tx_msg_save_req(c) ==
    Send(c, [kind |-> "save", title |-> page[c].login_,
             text |-> page[c].notka])

\* FormNotka.handleSubmit: a click on Save.
Save(c) ==
    /\ InEditor(c)
    /\ user[c].saves + user[c].blurs < MaxSaves
    /\ tx_msg_save_req(c)
    /\ user' = [user EXCEPT ![c].saves = @ + 1]
    /\ UNCHANGED <<page, next>>

\* FormNotka.handleBlur: the focus moves from the text to the Save button,
\* as it does in most browsers when the button is pressed.
handleBlur(c) ==
    /\ InEditor(c)
    /\ user[c].saves + user[c].blurs < MaxSaves
    /\ page' = [page EXCEPT ![c].blurs = @ + 1]
    /\ user' = [user EXCEPT ![c].blurs = @ + 1]
    /\ UNCHANGED <<serverVars, next>>

-----------------------------------------------------------------------------
(* Timers and the socket                                                   *)

\* The timer of handleBlur: the text as it is one second later.
BlurTimer(c) ==
    /\ page[c].blurs > 0
    /\ tx_msg_save_req(c)
    /\ page' = [page EXCEPT ![c].blurs = @ - 1]
    /\ UNCHANGED <<next, user>>

\* waitForConnection: each frame has a timer of its own.
SendTimer(c) ==
    /\ page[c].ws = "open"
    /\ \E i \in DOMAIN page[c].waiting :
          /\ Send(c, page[c].waiting[i])
          /\ page' = [page EXCEPT ![c].waiting = RemoveAt(@, i)]
    /\ UNCHANGED <<next, user>>

\* onopen: the handshake message and, for a page opened with a title, the
\* login. Timers that wait for the connection fire after it.
OnOpen(c) ==
    LET link == page[c].link
    IN /\ page[c].ws = "connecting"
       /\ \/ /\ page[c].autologin
             /\ Transmit(c, <<[kind |-> "syn"],
                              LoginBody(link.login, link.pass)>>)
             /\ page' = [page EXCEPT ![c].ws = "open", ![c].autologin = FALSE,
                                     ![c].login_ = link.login,
                                     ![c].password_ = link.pass]
          \/ /\ ~page[c].autologin
             /\ Transmit(c, <<[kind |-> "syn"]>>)
             /\ page' = [page EXCEPT ![c].ws = "open"]
       /\ UNCHANGED <<next, user>>

\* onclose and onerror only log: frames and answers on their way are lost.
OnClose(c) ==
    /\ page[c].ws # "closed"
    /\ page' = [page EXCEPT ![c].ws = "closed"]
    /\ UNCHANGED <<serverVars, next, user>>

\* The next answer for c, if there is one, is i, of this kind.
Incoming(c, i, kind) ==
    /\ page[c].ws = "open"
    /\ i > next[c]
    /\ i \in AnswersTo(c, kind)
    /\ \A j \in next[c]+1 .. i-1 : asked[answers[j].to].client # c
    /\ next' = [next EXCEPT ![c] = i]
    /\ UNCHANGED user

MustResendAlways(p, err) == err = "NO_SUCH_USER"
MustResendOnFail(p, err) ==
    err \in {"NO_SUCH_USER", "REGISTER_FAIL"} /\ p.loginState = "REGISTER"

\* NO_SUCH_USER on the create form: the server was not ready to register.
MustResend(p, err) == err = "NO_SUCH_USER" /\ p.loginState = "REGISTER"

IsLoggedInOrRegistered(err) == err \in {"LOGGED_IN", "REGISTERED"}
IsLoggedIn(err) == err = "LOGGED_IN"

\* The screen the page shows after a login was not successful. WsState has no
\* REGISTER_FAIL: loginState becomes undefined.
ScreenAfter(err, s) ==
    CASE err = "NO_SUCH_USER"   -> "REGISTER"
      [] err = "WRONG_PASSWORD" -> IF s = "LOGIN" THEN "LOGIN_PASS"
                                                  ELSE "LOGIN_FAIL"
      [] err = "REGISTERED"     -> "REGISTERED"
      [] OTHER                  -> "undefined"

OpenedForms(p) == [p EXCEPT !.greeting = p.login_, !.editor = TRUE]

\* Greeting replaces what is in main, the login forms included, and the
\* editor is rendered elsewhere.
Opened(p) ==
    [p EXCEPT !.root = "gone", !.greeting = p.login_, !.editor = TRUE]

rx_msg_login_ack(c, i) ==
    LET p == page[c]
        err == answers[i].value
        screen == ScreenAfter(err, p.loginState)
    IN /\ Incoming(c, i, "login_ack")
       /\ \/ /\ IsLoggedIn(err)
             /\ Become(c, Opened(p))
             /\ UNCHANGED serverVars
          \/ /\ MustResend(p, err)
             /\ tx_msg_login(c, p.login_, p.password_, p)
          \/ /\ ~IsLoggedIn(err) /\ ~MustResend(p, err)
             /\ Become(c, Rendered(p, screen,
                          IF screen = "LOGIN_PASS" THEN p.login_ ELSE EmptyTitle))
             /\ UNCHANGED serverVars

\* The stored text replaces the one in the editor.
rx_msg_notka(c, i) ==
    /\ Incoming(c, i, "notka")
    /\ page' = [page EXCEPT ![c].notka = answers[i].value, ![c].editor = TRUE]
    /\ UNCHANGED serverVars

\* rx_msg_save_req_ack shows an alert over the editor; there is no handler
\* for the handshake's acknowledgement.
rx_other(c, i) ==
    /\ \/ Incoming(c, i, "save_ack") /\ page' = [page EXCEPT ![c].editor = TRUE]
       \/ Incoming(c, i, "syn_ack") /\ UNCHANGED page
    /\ UNCHANGED serverVars

Serve(h) ==
    /\ \/ Server!Trivial(h) \/ Server!Login(h) \/ Server!Register(h)
       \/ Server!Save(h) \/ Server!Show(h) \/ Server!Refuse(h)
    /\ UNCHANGED <<page, next, user>>

User(c) ==
    \/ \E t \in Titles : handleChange(c, "login", t)
    \/ \E w \in Passwords : handleChange(c, "pass", w)
    \/ handleSubmit(c) \/ handleRegisterClick(c) \/ handleLoginNowClick(c)
    \/ \E x \in Texts : Edit(c, x)
    \/ Save(c) \/ handleBlur(c)

Page(c) ==
    \/ OnOpen(c) \/ OnClose(c) \/ SendTimer(c) \/ BlurTimer(c)
    \/ \E i \in DOMAIN answers :
          rx_msg_login_ack(c, i) \/ rx_msg_notka(c, i) \/ rx_other(c, i)

Next ==
    \/ \E c \in Clients : User(c) \/ Page(c)
    \/ \E h \in DOMAIN asked : Serve(h)

Spec == Init /\ [][Next]_vars

-----------------------------------------------------------------------------
(* Properties                                                              *)

\* The page of c was told that title was opened with its password.
WasOpened(c, title) ==
    \E i \in AcksSeen(c) : /\ answers[i].value = "LOGGED_IN"
                           /\ asked[answers[i].to].body.title = title

\* Types; and the editor is there exactly when the login forms are gone, so
\* that there is never a page with both, or with neither.
ClientTypeOK ==
    /\ next \in [Clients -> 0 .. Len(answers)]
    /\ \A c \in Clients :
          LET p == page[c]
          IN /\ p.ws \in {"connecting", "open", "closed"}
             /\ p.root \in {"router", "form", "gone"}
             /\ p.loginState \in {"LOGIN", "LOGIN_PASS", "LOGIN_FAIL",
                                  "REGISTER", "REGISTERED", "undefined"}
             /\ {p.form, p.box, p.link} \subseteq
                    [login : Titles, pass : Passwords]
             /\ p.autologin => p.ws # "open"
             /\ {p.login_, p.greeting} \subseteq Titles
             /\ p.password_ \in Passwords
             /\ p.notka \in Texts \cup {DefaultText}
             /\ p.blurs \in 0 .. user[c].blurs
             /\ \A i \in DOMAIN p.waiting : p.waiting[i] \in Bodies
             /\ Len(p.waiting) <= user[c].submits
             /\ p.editor = (p.root = "gone")

\* A title is created only for a user who asked for it in the create form:
\* opening one that does not exist never creates it. (Websocket.js sends a
\* login a second time by itself, and the server takes it for a registration.)
\* Only a hasty user gets a title that was never asked for, and then it is one
\* that this user tried to open.
CreatedOnlyWhenAsked ==
    [][\A t \in Titles :
          users'[t] # users[t] =>
              \E c \in Clients :
                 \/ \E w \in user[c].wishes : w.title = t
                 \/ /\ user[c].hasty
                    /\ \E h \in LoginsAsked(c) : asked[h].body.title = t]_vars

\* A title gets the password that was in the box when its user asked for it:
\* none if the box was left empty.
CreatedWithPasswordEntered ==
    [][\A t \in Titles :
          users'[t] # users[t] =>
              \E c \in Clients :
                 [title |-> t, password |-> users'[t]] \in user[c].wishes]_vars

\* The editor opens only for who gave the password of a title; it is the title
\* over the editor, where Save will put the text, unless the user was hasty:
\* then any title that was tried may be there.
EditorIsOfOpenedTitle ==
    \A c \in Clients :
       page[c].editor => /\ page[c].greeting = page[c].login_
                         /\ \E t \in Titles : WasOpened(c, t)
                         /\ user[c].hasty \/ WasOpened(c, page[c].greeting)

\* Whatever is sent, put off by a timer or lost before, the texts of a page are
\* saved under the title over its editor, and by a page that has opened a title.
SavesGoToOpenedTitles ==
    \A h \in DOMAIN asked :
       LET c == asked[h].client
       IN asked[h].body.kind = "save" =>
             page[c].editor /\ asked[h].body.title = page[c].greeting

\* "Perfect! Your notka ... is ready" is shown to who created a title, with the
\* password that was sent for it; the title it names is that one, unless the
\* user was hasty.
ReadyMeansRegistered ==
    \A c \in Clients :
       LET p == page[c]
       IN p.root = "form" /\ p.loginState = "REGISTERED" =>
             /\ user[c].hasty \/ users[p.login_] = p.password_
             /\ \E h \in LoginsAsked(c) :
                   users[asked[h].body.title] = asked[h].body.password

(***************************************************************************)
(* What the page says and does about a title is so, through late answers,  *)
(* forms shown again, timers and reloads: the editor is over a title that  *)
(* was opened, saves go to that one, and what it calls ready is registered.*)
(* For a hasty user no more is sure than that some title was opened, and   *)
(* some title registered.                                                  *)
(***************************************************************************)
PageIsTruthful == EditorIsOfOpenedTitle /\ SavesGoToOpenedTitles /\ ReadyMeansRegistered

\* A page resends a login at most once for each one its user submitted or its
\* link held: pages and server never keep answering each other.
ResendsAreBounded ==
    \A c \in Clients :
       LET links == IF page[c].link.login = EmptyTitle THEN 0 ELSE 1
       IN Cardinality(LoginsAsked(c)) + Len(page[c].waiting)
             <= 2 * (user[c].submits + links)
=============================================================================
