------------------------------ MODULE DbCursor ------------------------------
(***************************************************************************)
(* How the API server asks the database (dbcursor.py).  Each query makes   *)
(* a cursor of its own, on a connection of its own: that of the thread is  *)
(* looked for where none is ever put.  A query that fails because of the   *)
(* connection is tried again on another, whether the server has executed   *)
(* it or not.                                                              *)
(***************************************************************************)
EXTENDS Integers

CONSTANTS
    None,
    ConnectTries,   \* module.tries
    QueryTries,     \* tries
    MaxQueries      \* bound on the queries

VARIABLES
    asks,           \* the query that the thread is at or has made last
    connections,    \* how many were made
    lost,           \* those that broke
    executed        \* connection -> the query that was executed on it, None before

bvars == <<asks, connections, lost, executed>>

Asking(at, n, onerow) ==
    [at |-> at, query |-> n, onerow |-> onerow, tries |-> QueryTries, left |-> ConnectTries,
     cursor |-> None, outcome |-> None]

Connections == 1 .. MaxQueries * QueryTries

DbInit ==
    /\ asks = Asking("over", 0, FALSE) /\ connections = 0 /\ lost = {}
    /\ executed = [c \in Connections |-> None]

At(at) == asks.at = at
Over(outcome) == asks' = [asks EXCEPT !.at = "over", !.outcome = outcome]

\* dbcursor_query; the thread is through with the one before.
Query(n, onerow) ==
    /\ At("over") /\ n = asks.query + 1
    /\ asks' = Asking("connect", n, onerow)
    /\ UNCHANGED <<connections, lost, executed>>

\* cursor: the database is asked for a connection so many times.
Connect ==
    /\ At("connect")
    /\ \/ /\ connections' = connections + 1
          /\ asks' = [asks EXCEPT !.at = "execute", !.cursor = connections + 1]
       \/ /\ IF asks.left > 1 THEN asks' = [asks EXCEPT !.left = @ - 1] ELSE Over("raised")
          /\ UNCHANGED connections
    /\ UNCHANGED <<lost, executed>>

Execute(rows) ==
    /\ At("execute")
    /\ executed' = [executed EXCEPT ![asks.cursor] = asks.query]
    /\ Over(IF rows < 0 \/ (asks.onerow /\ rows # 1) THEN "raised" ELSE "answered")
    /\ UNCHANGED <<connections, lost>>

\* The statement is refused.
Refuse ==
    /\ At("execute") /\ Over("raised")
    /\ UNCHANGED <<connections, lost, executed>>

\* Mutant: the next try uses the cursor there is.
RetrySame ==
    /\ At("execute")
    /\ lost' = lost \cup {asks.cursor}
    /\ \/ executed' = [executed EXCEPT ![asks.cursor] = asks.query]
       \/ UNCHANGED executed
    /\ IF asks.tries > 1 THEN asks' = [asks EXCEPT !.tries = @ - 1] ELSE Over("raised")
    /\ UNCHANGED connections

\* OperationalError: the connection breaks, before the server is done or after.
Retry ==
    /\ At("execute")
    /\ lost' = lost \cup {asks.cursor}
    /\ \/ executed' = [executed EXCEPT ![asks.cursor] = asks.query]
       \/ UNCHANGED executed
    /\ IF asks.tries > 1
       THEN asks' = [asks EXCEPT !.tries = @ - 1, !.at = "connect", !.left = ConnectTries,
                                 !.cursor = None]
       ELSE Over("raised")
    /\ UNCHANGED connections

DbNext ==
    \/ Connect \/ Refuse \/ Retry
    \/ \E rows \in -1 .. 2 : Execute(rows)
    \/ \E n \in 1 .. MaxQueries, onerow \in BOOLEAN : Query(n, onerow)

----------------------------------------------------------------------------

\* An answer comes from a connection that has not broken and executed nothing but the
\* query; one that was executed more often than that was so on connections that broke
\* under it, and never more often than it was tried (dbcursor.py 75-125).
StatementsSound ==
    /\ asks.outcome = "answered" =>
          asks.cursor \notin lost /\ executed[asks.cursor] = asks.query
    /\ \A c, d \in Connections :
          executed[c] # None /\ executed[c] = executed[d] /\ c < d =>
              c \in lost /\ d - c < QueryTries

=============================================================================
