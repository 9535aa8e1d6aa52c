------------------------------- MODULE NotkaDb -------------------------------
(***************************************************************************)
(* The database access layer (class Db): one QSqlDatabase connection,      *)
(* shared by every pool thread and by the main thread under                *)
(* Database::mutex, to a MySQL server that may go away and come back.      *)
(*                                                                         *)
(* A critical section that ends in one statement is one step. The two that *)
(* write, register_user and save_notka, are two: the statement, and the    *)
(* commit, because the server can be lost in between. txn is the           *)
(* transaction between the two; while there is one Database::mutex is      *)
(* held, so no other critical section starts.                              *)
(*                                                                         *)
(* What Qt's SQL module does is taken from its documented behaviour:       *)
(* database(name) opens a registered connection that is not open; driver   *)
(* errors are remembered until the connection is registered anew; on a     *)
(* connection that is registered but not open a query does not run and     *)
(* leaves no valid lastError(). On an open connection a statement is an    *)
(* error for two kinds of data: authenticate_user splices the title into   *)
(* its SQL, and a title with an apostrophe ends the string early; a text   *)
(* of more than 64 KB does not go into the BLOB of table notkas.           *)
(***************************************************************************)
EXTENDS Naturals

CONSTANTS Titles, Passwords, Texts,
          Unquotable,     \* titles with which the spliced SELECT is no SQL
          Oversized,      \* texts that the column notkas.notka cannot hold
          EmptyTitle,     \* the title ""
          EmptyText,      \* the text ""
          NoPassword,     \* the title has no row in users
          NoText,         \* the title has no row in notkas
          NoTxn           \* no transaction is open

ASSUME DbAssumption ==
    /\ Unquotable \subseteq Titles \ {EmptyTitle}
    /\ Oversized \subseteq Texts
    /\ EmptyText \in Texts \ Oversized
    /\ NoPassword \notin Passwords
    /\ NoText \notin Texts
    /\ NoTxn \notin [table : {"users", "notkas"}, key : Titles,
                     value : Passwords \cup Texts]

VARIABLES mysql,      \* is the MySQL server up
          conn,       \* the connection: absent, closed, open or stale
          driverError,\* the driver's lastError() is valid
          txn,        \* the write between its statement and its commit
          users,      \* table users
          notkas      \* table notkas

dbVars == <<mysql, conn, driverError, txn, users, notkas>>
tables == <<users, notkas>>

\* The server starts on the tables earlier runs of it left behind; no run can
\* have registered the empty title.
DbInit ==
    /\ mysql = TRUE
    /\ conn = "absent"
    /\ driverError = FALSE
    /\ txn = NoTxn
    /\ users \in [Titles -> Passwords \cup {NoPassword}]
    /\ EmptyTitle \in Titles => users[EmptyTitle] = NoPassword
    /\ notkas \in [Titles -> (Texts \ Oversized) \cup {NoText}]

DbTypeOK ==
    /\ mysql \in BOOLEAN
    /\ conn \in {"absent", "closed", "open", "stale"}
    /\ driverError \in BOOLEAN
    /\ txn = NoTxn \/ /\ txn.key \in Titles
                      /\ \/ txn.table = "users" /\ txn.value \in Passwords
                         \/ txn.table = "notkas" /\ txn.value \in Texts
    /\ users \in [Titles -> Passwords \cup {NoPassword}]
    /\ notkas \in [Titles -> Texts \cup {NoText}]

\* Database::mutex can be locked.
UnlockedAlways == TRUE
Unlocked == txn = NoTxn

\* The connection QSqlDatabase::database(db_con_name) hands out.
Connected == IF conn = "closed" /\ mysql THEN "open" ELSE conn

\* Each critical section gets the connection and starts a transaction, which
\* the driver fails on a stale connection.
Use ==
    /\ Unlocked
    /\ conn' = Connected
    /\ driverError' = (driverError \/ Connected = "stale")
    /\ UNCHANGED mysql

-----------------------------------------------------------------------------
(* Operations of class Db. The last argument is what the caller gets.      *)

\* The answer to "does login have this password": 1, 0 and 2 in the code.
PasswordResult(login, password) ==
    CASE users[login] = NoPassword -> "no_user"
      [] users[login] = password   -> "match"
      [] OTHER                     -> "mismatch"

\* The SELECT is answered: on an open connection, when it is SQL.
Selects(login) == Connected = "open" /\ login \notin Unquotable

\* Both errors, of the connection and of the query, are thrown.
authenticate_user(login, password, res) ==
    \/ /\ login = EmptyTitle
       /\ res = "no_user"
       /\ UNCHANGED dbVars
    \/ /\ login # EmptyTitle
       /\ Use
       /\ res = IF Selects(login) THEN PasswordResult(login, password)
                                  ELSE "throw"
       /\ UNCHANGED <<txn, tables>>

\* The title is not taken: what the UNIQUE of users.user tests.
NotTaken(login) == users[login] = NoPassword

\* The INSERT: users.user is UNIQUE. An error is rolled back and thrown.
register_user(login, password, res) ==
    \/ /\ login = EmptyTitle
       /\ res = "throw"
       /\ UNCHANGED dbVars
    \/ /\ login # EmptyTitle
       /\ Use
       /\ \/ /\ Connected = "open" /\ NotTaken(login)
             /\ res = "commit"
             /\ txn' = [table |-> "users", key |-> login, value |-> password]
          \/ /\ ~(Connected = "open" /\ NotTaken(login))
             /\ res = "throw"
             /\ UNCHANGED txn
       /\ UNCHANGED tables

\* The upsert. Nothing tests that the connection is open: an absent or a
\* stale connection reports an error, one that is not open does not. A
\* statement error is rolled back.
save_notka(title, text, res) ==
    /\ Use
    /\ \/ /\ Connected = "open" /\ text \notin Oversized
          /\ res = "commit"
          /\ txn' = [table |-> "notkas", key |-> title, value |-> text]
       \/ /\ Connected = "closed"
          /\ res = "true"
          /\ UNCHANGED txn
       \/ /\ \/ Connected \in {"absent", "stale"}
             \/ Connected = "open" /\ text \in Oversized
          /\ res = "false"
          /\ UNCHANGED txn
    /\ UNCHANGED tables

\* What the commit does to the tables when the connection is open.
WrittenBoth(table, name) == [table EXCEPT ![txn.key] = txn.value]
Written(table, name) ==
    IF txn.table = name THEN [table EXCEPT ![txn.key] = txn.value] ELSE table

\* db.commit(), whose result neither writer looks at: it does nothing when
\* the server was lost since the statement.
commit ==
    /\ txn # NoTxn
    /\ txn' = NoTxn
    /\ driverError' = (driverError \/ conn = "stale")
    /\ IF conn = "open"
       THEN /\ users' = Written(users, "users")
            /\ notkas' = Written(notkas, "notkas")
       ELSE UNCHANGED tables
    /\ UNCHANGED <<mysql, conn>>

get_notka(title, res) ==
    /\ Use
    /\ res = CASE Connected = "open" -> notkas[title]
               [] Connected = "closed" -> EmptyText
               [] OTHER -> NoText
    /\ UNCHANGED <<txn, tables>>

close_database ==
    /\ Unlocked
    /\ conn' = "absent"
    /\ UNCHANGED <<mysql, driverError, txn, tables>>

\* addDatabase() registers a new driver, which remembers no error; open()
\* fails when the server is down.
init_database ==
    /\ Unlocked
    /\ conn' = IF mysql THEN "open" ELSE "closed"
    /\ driverError' = ~mysql
    /\ UNCHANGED <<mysql, txn, tables>>

-----------------------------------------------------------------------------
(* The MySQL server.                                                       *)

\* It goes away: an open connection is stale from now on, and a transaction
\* that was not committed is rolled back.
MysqlDown ==
    /\ mysql
    /\ mysql' = FALSE
    /\ conn' = IF conn = "open" THEN "stale" ELSE conn
    /\ UNCHANGED <<driverError, txn, tables>>

MysqlUp ==
    /\ ~mysql
    /\ mysql' = TRUE
    /\ UNCHANGED <<conn, driverError, txn, tables>>
=============================================================================
