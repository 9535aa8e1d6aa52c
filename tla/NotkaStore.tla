------------------------------ MODULE NotkaStore ------------------------------
(***************************************************************************)
(* What the server promises its clients while MySQL stays up: two tables   *)
(* and a login state per session, on which every message takes effect at   *)
(* one instant between its receipt and its answer - or is refused without  *)
(* effect. There are no threads, no mutexes, no transactions, no main      *)
(* thread and no reconnects here; NotkaServer has them and implements this *)
(* module.                                                                 *)
(***************************************************************************)
EXTENDS Naturals, Sequences

CONSTANTS Clients, Bodies, Titles, Passwords, Texts,
          EmptyTitle,  \* a title nobody can register
          NoPassword,  \* what users holds for a title that is not registered
          NoText       \* what notkas holds for a title without a text

VARIABLES asked,   \* messages received, in order: [client, body]
          stage,   \* of each message: asked, show or done
          state,   \* login state of each session
          users, notkas,
          answers  \* replies, in the order they were given

vars == <<asked, stage, state, users, notkas, answers>>

Init ==
    /\ asked = <<>>
    /\ stage = <<>>
    /\ state = [c \in Clients |-> "INIT"]
    /\ users \in [Titles -> Passwords \cup {NoPassword}]
    /\ notkas \in [Titles -> Texts \cup {NoText}]
    /\ answers = <<>>

Body(h) == asked[h].body
SessionState(h) == state[asked[h].client]
SetState(h, s) == state' = [state EXCEPT ![asked[h].client] = s]

Answer(h, kind, value) ==
    answers' = Append(answers, [to |-> h, kind |-> kind, value |-> value])

Ask(c, body) ==
    /\ asked' = Append(asked, [client |-> c, body |-> body])
    /\ stage' = Append(stage, "asked")
    /\ UNCHANGED <<state, users, notkas, answers>>

\* Message h of this kind is served and the server moves on to stage s.
Serve(h, kind, s) ==
    /\ stage[h] = "asked"
    /\ Body(h).kind = kind
    /\ stage' = [stage EXCEPT ![h] = s]
    /\ UNCHANGED asked

\* Messages that touch neither table.
Trivial(h) ==
    /\ \/ Serve(h, "junk", "done") /\ UNCHANGED answers
       \/ Serve(h, "syn", "done") /\ Answer(h, "syn_ack", "")
       \/ Serve(h, "login_bad", "done") /\ Answer(h, "login_ack", SessionState(h))
       \/ Serve(h, "save_short", "done") /\ Answer(h, "save_ack", "ErrorTextLen")
    /\ UNCHANGED <<state, users, notkas>>

\* A login of a session that was not just told there is no such user.
Login(h) ==
    LET stored == users[Body(h).title]
    IN /\ Body(h).kind = "login"
       /\ SessionState(h) # "NO_SUCH_USER"
       /\ \/ /\ stored = NoPassword
             /\ Serve(h, "login", "done")
             /\ SetState(h, "NO_SUCH_USER")
             /\ Answer(h, "login_ack", "NO_SUCH_USER")
          \/ /\ stored # NoPassword
             /\ stored = Body(h).password
             /\ Serve(h, "login", "show")
             /\ SetState(h, "LOGGED_IN")
             /\ Answer(h, "login_ack", "LOGGED_IN")
          \/ /\ stored # NoPassword
             /\ stored # Body(h).password
             /\ Serve(h, "login", "done")
             /\ SetState(h, "WRONG_PASSWORD")
             /\ Answer(h, "login_ack", "WRONG_PASSWORD")
       /\ UNCHANGED <<users, notkas>>

\* A login of a session that was: it creates the title, if it is still free.
Register(h) ==
    /\ Serve(h, "login", "done")
    /\ SessionState(h) = "NO_SUCH_USER"
    /\ Body(h).title # EmptyTitle
    /\ users[Body(h).title] = NoPassword
    /\ users' = [users EXCEPT ![Body(h).title] = Body(h).password]
    /\ SetState(h, "REGISTERED")
    /\ Answer(h, "login_ack", "REGISTERED")
    /\ UNCHANGED notkas

Save(h) ==
    /\ Serve(h, "save", "done")
    /\ notkas' = [notkas EXCEPT ![Body(h).title] = Body(h).text]
    /\ Answer(h, "save_ack", "Ok")
    /\ UNCHANGED <<state, users>>

\* The text of a title that was opened: the one stored now.
Show(h) ==
    /\ stage[h] = "show"
    /\ stage' = [stage EXCEPT ![h] = "done"]
    /\ notkas[Body(h).title] # NoText
    /\ Answer(h, "notka", notkas[Body(h).title])
    /\ UNCHANGED <<asked, state, users, notkas>>

\* The database cannot be used at the moment, or there is nothing to show.
Refuse(h) ==
    /\ UNCHANGED <<asked, users, notkas>>
    /\ \/ /\ Serve(h, "save", "done")
          /\ Answer(h, "save_ack", "Fail")
          /\ UNCHANGED state
       \/ /\ Serve(h, "login", "done")
          /\ SessionState(h) # "NO_SUCH_USER"
          /\ UNCHANGED <<state, answers>>
       \/ /\ Serve(h, "login", "done")
          /\ SessionState(h) = "NO_SUCH_USER"
          /\ SetState(h, "REGISTER_FAIL")
          /\ Answer(h, "login_ack", "REGISTER_FAIL")
       \/ /\ stage[h] = "show"
          /\ stage' = [stage EXCEPT ![h] = "done"]
          /\ UNCHANGED <<state, answers>>

Next ==
    \/ \E c \in Clients, body \in Bodies : Ask(c, body)
    \/ \E h \in DOMAIN asked :
          Trivial(h) \/ Login(h) \/ Register(h) \/ Save(h) \/ Show(h) \/ Refuse(h)

Spec == Init /\ [][Next]_vars
=============================================================================
