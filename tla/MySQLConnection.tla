-------------------------- MODULE MySQLConnection --------------------------
(***************************************************************************)
(* database/mysql/mysql_connection: one connection, its inTransaction_     *)
(* flag and the session at the server.  The server may end the session at  *)
(* any time, and every call may fail; the pool reconnects a connection     *)
(* whose ping() failed.                                                    *)
(***************************************************************************)
EXTENDS Naturals

CONSTANT Update    \* the updates that are sent, each at most once

VARIABLES connected_, inTransaction_,
          session,     \* the server's side: "none", "live", or "lost"
          autocommit,  \* the session's autocommit mode
          open,        \* updates of the session's open transaction
          durable,     \* updates committed at the server
          acked,       \* history: updates acknowledged since beginTransaction()
          reported,    \* history: updates the program takes for committed
          orphaned,    \* history: the updates ReportedKept makes an exception for
          unrestored   \* history: autocommit was to be switched on again and was not

flags == <<connected_, inTransaction_>>
server == <<session, autocommit, open, durable>>
history == <<acked, reported, orphaned, unrestored>>
vars == <<flags, server, history>>

Live == session = "live"
Sent == durable \union open \union acked \union reported

Init ==
  /\ connected_ = FALSE /\ inTransaction_ = FALSE
  /\ session = "none" /\ autocommit = TRUE /\ open = {} /\ durable = {}
  /\ acked = {} /\ reported = {} /\ orphaned = {} /\ unrestored = FALSE

\* connect() closes the connection it has, then makes a new one or fails; a new
\* session commits automatically.  inTransaction_ is left as it was.
connect ==
  /\ \/ session' = "live" /\ connected_' = TRUE
     \/ session' = "none" /\ connected_' = FALSE
  /\ autocommit' = TRUE /\ open' = {}
  /\ orphaned' = IF inTransaction_ THEN orphaned \union acked ELSE orphaned
  /\ unrestored' = FALSE
  /\ UNCHANGED <<inTransaction_, durable, acked, reported>>

disconnect ==
  /\ connected_
  /\ connected_' = FALSE
  /\ session' = "none" /\ autocommit' = TRUE /\ open' = {}
  /\ unrestored' = FALSE
  /\ UNCHANGED <<inTransaction_, durable, acked, reported, orphaned>>

\* executeUpdate() and insertAndGetId() that succeed; a failed one returns -1
\* and changes nothing.
executeUpdate(u) ==
  /\ Live /\ u \notin Sent
  /\ IF autocommit THEN durable' = durable \union {u} /\ UNCHANGED open
     ELSE open' = open \union {u} /\ UNCHANGED durable
  /\ IF inTransaction_ THEN acked' = acked \union {u} /\ UNCHANGED reported
     ELSE reported' = reported \union {u} /\ UNCHANGED acked
  /\ orphaned' = IF unrestored /\ ~inTransaction_ THEN orphaned \union {u} ELSE orphaned
  /\ UNCHANGED <<flags, session, autocommit, unrestored>>

beginTransaction ==
  /\ connected_ /\ ~inTransaction_
  /\ Live
  /\ autocommit' = FALSE
  /\ inTransaction_' = TRUE
  /\ acked' = {}
  /\ UNCHANGED <<connected_, session, open, durable, reported, orphaned, unrestored>>

\* mysql_autocommit(1) at the end of commit() and rollback(); nobody looks at
\* its result.
Restore ==
  \/ autocommit' = TRUE /\ unrestored' = FALSE
  \/ UNCHANGED autocommit /\ unrestored' = ~autocommit

\* Mutation of commit: the result of mysql_commit() is not looked at.
commitUnchecked ==
  /\ connected_ /\ inTransaction_
  /\ Restore
  /\ open' = {} /\ durable' = durable \union open
  /\ inTransaction_' = FALSE
  /\ reported' = reported \union acked /\ acked' = {}
  /\ UNCHANGED <<connected_, session, orphaned>>

\* mysql_commit() succeeded: what was open is durable.
commit ==
  /\ connected_ /\ inTransaction_
  /\ Live
  /\ Restore
  /\ open' = {} /\ durable' = durable \union open
  /\ inTransaction_' = FALSE
  /\ reported' = reported \union acked /\ acked' = {}
  /\ UNCHANGED <<connected_, session, orphaned>>

\* mysql_rollback() succeeded: what was open is dropped.
rollback ==
  /\ connected_ /\ inTransaction_
  /\ Live
  /\ Restore
  /\ open' = {} /\ acked' = {}
  /\ inTransaction_' = FALSE
  /\ UNCHANGED <<connected_, session, durable, reported, orphaned>>

\* The server ends the session; the program learns it from the next call.
LoseSession ==
  /\ Live
  /\ session' = "lost" /\ open' = {}
  /\ UNCHANGED <<flags, autocommit, durable, history>>

Next ==
  \/ connect \/ disconnect \/ beginTransaction \/ commit \/ rollback \/ LoseSession
  \/ \E u \in Update : executeUpdate(u)

Spec == Init /\ [][Next]_vars

-----------------------------------------------------------------------------
(* Properties. *)

TypeOK ==
  /\ connected_ \in BOOLEAN /\ inTransaction_ \in BOOLEAN
  /\ session \in {"none", "live", "lost"} /\ autocommit \in BOOLEAN
  /\ open \subseteq Update /\ durable \subseteq Update
  /\ acked \subseteq Update /\ reported \subseteq Update /\ orphaned \subseteq Update
  /\ unrestored \in BOOLEAN

\* An update the program takes for committed (acknowledged outside of a
\* transaction, or in one whose commit() returned true) is committed, unless
\* connect() had replaced the session under the transaction, or it was sent
\* after the ignored mysql_autocommit(1) of an earlier transaction had failed.
ReportedKept == reported \subseteq durable \union orphaned
=============================================================================
