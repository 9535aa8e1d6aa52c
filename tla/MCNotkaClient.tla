---------------------------- MODULE MCNotkaClient ----------------------------
(* Small instances of NotkaClient for TLC.                                 *)
EXTENDS NotkaClient

\* notka.online, notka.online/title and notka.online/title/password.
AllLinks == [login : Titles \ {EmptyTitle}, pass : Passwords] \cup {Blank}
=============================================================================
