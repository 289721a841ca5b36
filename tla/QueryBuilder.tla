---------------------------- MODULE QueryBuilder ----------------------------
(***************************************************************************)
(* database/orm/query_builder: SQL text with "?" for the values, and the   *)
(* vector of parameters that is bound to them by position.  A placeholder  *)
(* and the parameter meant for it are named alike: by clause and column.   *)
(* The clauses without placeholders (columns, table, ORDER BY, LIMIT,      *)
(* OFFSET) are left out, and type_, which nothing reads.                   *)
(***************************************************************************)
EXTENDS Naturals, Sequences

CONSTANTS Column,
          MaxParams    \* bound on the parameters of one builder

VARIABLES whereClause_,  \* the placeholders of the WHERE clause
          data_,         \* the columns of values() or set(), in the map's order
          params_,       \* the parameters
          sql,           \* the SQL built last: its placeholders, and params() then
          wheres,        \* history: calls of the where family since reset()
          builds         \* history: builds that added parameters since reset()

vars == <<whereClause_, data_, params_, sql, wheres, builds>>

Tagged(clause, columns) == [i \in DOMAIN columns |-> <<clause, columns[i]>>]
NoSQL == [kind |-> "none", holes |-> <<>>, bound |-> <<>>, once |-> FALSE]
ColumnLists == { <<a>> : a \in Column } \union { s \in Column \X Column : s[1] # s[2] }

Init ==
  /\ whereClause_ = <<>> /\ data_ = <<>> /\ params_ = <<>> /\ sql = NoSQL
  /\ wheres = 0 /\ builds = 0

\* where(column, op, value), whereEq(), whereLike(): one column; whereIn(): one
\* placeholder for each value.  The clause is replaced, the parameters stay.
where(cs) ==
  /\ Len(params_) + Len(cs) <= MaxParams
  /\ whereClause_' = Tagged("where", cs)
  /\ params_' = params_ \o Tagged("where", cs)
  /\ wheres' = wheres + 1
  /\ UNCHANGED <<data_, sql, builds>>

\* where(condition), whereNull(), whereNotNull(): a clause without placeholders.
wherePlain ==
  /\ wheres <= MaxParams
  /\ whereClause_' = <<>>
  /\ wheres' = wheres + 1
  /\ UNCHANGED <<data_, params_, sql, builds>>

\* values() and set().
set(cs) ==
  /\ data_' = cs
  /\ UNCHANGED <<whereClause_, params_, sql, wheres, builds>>

\* The SQL, with the parameters the caller gets from params().
Built(kind, holes, bound) ==
  sql' = [kind |-> kind, holes |-> holes, bound |-> bound, once |-> wheres <= 1 /\ builds = 0]

\* buildSelectSQL() and buildDeleteSQL().
buildSelectSQL ==
  /\ Built("select", whereClause_, params_)
  /\ UNCHANGED <<whereClause_, data_, params_, wheres, builds>>

\* Each column of data_ adds its parameter to those that are there already.
Build(clause, tail) ==
  LET assigned == Tagged(clause, data_) IN
  /\ builds <= MaxParams /\ Len(params_) + Len(data_) <= MaxParams
  /\ Built(clause, assigned \o tail, params_ \o assigned)
  /\ params_' = params_ \o assigned
  /\ builds' = builds + 1
  /\ UNCHANGED <<whereClause_, data_, wheres>>

buildInsertSQL == Build("values", <<>>)

buildUpdateSQL == Build("set", whereClause_)

\* Mutation of reset: the parameters stay.
resetClauses ==
  /\ whereClause_' = <<>> /\ data_' = <<>> /\ sql' = NoSQL
  /\ wheres' = 0 /\ builds' = 0
  /\ UNCHANGED params_

reset ==
  /\ whereClause_' = <<>> /\ data_' = <<>> /\ params_' = <<>> /\ sql' = NoSQL
  /\ wheres' = 0 /\ builds' = 0

Next ==
  \/ \E cs \in ColumnLists : where(cs) \/ set(cs)
  \/ wherePlain \/ buildSelectSQL \/ buildInsertSQL \/ buildUpdateSQL \/ reset

Spec == Init /\ [][Next]_vars

-----------------------------------------------------------------------------
(* Properties. *)

\* A builder that is used for one statement, with one condition, hands out the
\* parameters its placeholders ask for, in any order of the calls and also
\* after reset().  Two statements do not come out right: an INSERT with a
\* condition has too many, and in an UPDATE with a condition the values of the
\* condition come before those of SET.
UsedOnceAligns ==
  sql.once =>
    \/ sql.bound = sql.holes
    \/ sql.kind = "values" /\ \E i \in DOMAIN sql.bound : sql.bound[i][1] = "where"
    \/ sql.kind = "set" /\ \E n \in 0..Len(sql.holes) :
         /\ \A i \in DOMAIN sql.holes : sql.holes[i][1] = IF i <= n THEN "set" ELSE "where"
         /\ sql.bound = SubSeq(sql.holes, n + 1, Len(sql.holes)) \o SubSeq(sql.holes, 1, n)
=============================================================================
