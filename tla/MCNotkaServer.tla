---------------------------- MODULE MCNotkaServer ----------------------------
(* Small instances of NotkaServer for TLC.                                 *)
EXTENDS NotkaServer, TLC

Symmetry == Permutations(Clients) \cup Permutations(Passwords)
            \cup Permutations(Texts \ (Oversized \cup {EmptyText}))
=============================================================================
