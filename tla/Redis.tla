------------------------------- MODULE Redis -------------------------------
(***************************************************************************)
(* database/redis: what a borrower of a RedisClient meets.  The client's   *)
(* connection has a session at the server, which may be in a MULTI, or     *)
(* subscribed to channels, when the RedisGuard gives the client back in    *)
(* the middle of it.  Who waits for a client, and how many there are, is   *)
(* in ConnectionPool.                                                      *)
(***************************************************************************)
EXTENDS Naturals

CONSTANTS Client,
          MaxLoans     \* bound on the loans

VARIABLES context_,  \* client -> whether it has a connection that works
          mode,      \* client -> its session: "normal", "multi", "subscribed"
          queued,    \* client -> the loans whose commands its MULTI holds
          selected,  \* client -> whether the session uses the configured database
          loan,      \* client -> the loan it is out on, 0 in the pool
          loans,     \* the loans made so far
          last       \* what the last command of a loan came to

vars == <<context_, mode, queued, selected, loan, loans, last>>

\* The wrappers by what they make of a reply: set() wants a status; get(),
\* hget(), lpop(), rpop() and zscore() a value; del(), hdel(), sismember() and
\* the counting ones a positive number; hset() and publish() any reply; hgetall(),
\* lrange(), smembers() and zrange() an array.
Command == {"status", "value", "positive", "valid", "array"}
Silent == [valid |-> FALSE, type |-> "NIL", positive |-> FALSE]
Answer(t, d) == [valid |-> TRUE, type |-> t, positive |-> d]

-----------------------------------------------------------------------------
(* Replies. *)

\* The type of the reply to a command that was carried out: SET and the like
\* give a status; GET a string, or nil; DEL and the like a number; HSET a number;
\* LRANGE and the like an array.
Carried(c) ==
  CASE c = "status" -> {"STATUS"}
    [] c = "value" -> {"STRING", "NIL"}
    [] c = "array" -> {"ARRAY"}
    [] OTHER -> {"INTEGER"}

isStatus(r) == r.type = "STATUS"
isValue(r) == r.type # "NIL"
isArray(r) == r.type = "ARRAY"

\* asInteger() is 0 for everything but a number, also where the number itself
\* is returned.
isPositive(r) == r.type = "INTEGER" /\ r.positive

\* Mutation of Result: an error counts as carried out.
ResultNotNil(c, r) == r.valid /\ isValue(r)

\* What the wrapper of a command makes of the reply.
Result(c, r) ==
  /\ r.valid
  /\ CASE c = "status" -> isStatus(r)
       [] c = "value" -> isValue(r)
       [] c = "positive" -> isPositive(r)
       [] c = "valid" -> TRUE
       [] c = "array" -> isArray(r)

Outcome(c, r, done, inMulti) ==
  [command |-> c, type |-> r.type, result |-> Result(c, r), done |-> done, queued |-> inMulti]

-----------------------------------------------------------------------------
(* The client. *)

\* A new connection: a session in normal mode.
Fresh(k, ok) ==
  /\ context_' = [context_ EXCEPT ![k] = TRUE]
  /\ mode' = [mode EXCEPT ![k] = "normal"]
  /\ queued' = [queued EXCEPT ![k] = {}]
  /\ selected' = [selected EXCEPT ![k] = ok]

\* execute() and the wrapper of a command: a client without a connection, or
\* whose connection breaks, gives no reply, and then the command may have been
\* carried out or not.
execute(k, c) ==
  /\ loan[k] # 0
  /\ \/ /\ context_[k] /\ mode[k] = "normal"
        /\ \E t \in Carried(c), p \in BOOLEAN :
             last' = Outcome(c, Answer(t, p), p \/ c # "positive", FALSE)
        /\ UNCHANGED <<context_, queued>>
     \/ /\ context_[k] /\ mode[k] = "multi"
        /\ queued' = [queued EXCEPT ![k] = @ \union {loan[k]}]
        /\ last' = Outcome(c, Answer("STATUS", FALSE), FALSE, TRUE)
        /\ UNCHANGED context_
     \/ /\ context_[k]
        /\ last' = Outcome(c, Answer("ERROR", FALSE), FALSE, FALSE)
        /\ UNCHANGED <<context_, queued>>
     \/ /\ \E done \in {FALSE, context_[k] /\ mode[k] = "normal"} :
             last' = Outcome(c, Silent, done, FALSE)
        /\ context_' = [context_ EXCEPT ![k] = FALSE]
        /\ UNCHANGED queued
  /\ UNCHANGED <<mode, selected, loan, loans>>

multi(k) ==
  /\ loan[k] # 0 /\ context_[k] /\ mode[k] = "normal"
  /\ mode' = [mode EXCEPT ![k] = "multi"]
  /\ UNCHANGED <<context_, queued, selected, loan, loans, last>>

\* exec() carries out what is queued, discard() drops it.
exec(k) ==
  /\ loan[k] # 0 /\ context_[k] /\ mode[k] = "multi"
  /\ mode' = [mode EXCEPT ![k] = "normal"]
  /\ queued' = [queued EXCEPT ![k] = {}]
  /\ UNCHANGED <<context_, selected, loan, loans, last>>

subscribe(k) ==
  /\ loan[k] # 0 /\ context_[k] /\ mode[k] = "normal"
  /\ mode' = [mode EXCEPT ![k] = "subscribed"]
  /\ UNCHANGED <<context_, queued, selected, loan, loans, last>>

unsubscribe(k) ==
  /\ loan[k] # 0 /\ context_[k] /\ mode[k] = "subscribed"
  /\ mode' = [mode EXCEPT ![k] = "normal"]
  /\ UNCHANGED <<context_, queued, selected, loan, loans, last>>

-----------------------------------------------------------------------------
(* The pool. *)

\* Mutation of ping: the status of the reply is enough.
pingStatus(k) == context_[k] /\ mode[k] # "subscribed"

\* ping() compares asString() with "PONG"; asString() is empty for a status, and
\* PONG is one.
ping(k) == FALSE

\* A client from the pool: one whose ping() fails is connected again; the
\* results of auth() and select() are not looked at.
borrow(k) ==
  /\ loan[k] = 0 /\ loans < MaxLoans
  /\ loans' = loans + 1
  /\ loan' = [loan EXCEPT ![k] = loans + 1]
  /\ IF ping(k) THEN UNCHANGED <<context_, mode, queued, selected>>
     ELSE \E ok \in BOOLEAN : Fresh(k, ok)
  /\ UNCHANGED last

\* The reconnection fails: getConnection() returns nothing.
borrowNothing(k) ==
  /\ loan[k] = 0 /\ ~ping(k)
  /\ context_' = [context_ EXCEPT ![k] = FALSE]
  /\ UNCHANGED <<mode, queued, selected, loan, loans, last>>

\* ~RedisGuard(), at the end of the block or when an exception leaves it.
returnConnection(k) ==
  /\ loan[k] # 0
  /\ loan' = [loan EXCEPT ![k] = 0]
  /\ UNCHANGED <<context_, mode, queued, selected, loans, last>>

\* createConnection() looks at the results of auth() and select().
Init ==
  /\ context_ = [k \in Client |-> TRUE] /\ mode = [k \in Client |-> "normal"]
  /\ queued = [k \in Client |-> {}] /\ selected = [k \in Client |-> TRUE]
  /\ loan = [k \in Client |-> 0] /\ loans = 0
  /\ last = Outcome("status", Silent, FALSE, FALSE)

Next ==
  \E k \in Client :
    \/ borrow(k) \/ borrowNothing(k) \/ returnConnection(k)
    \/ multi(k) \/ exec(k) \/ subscribe(k) \/ unsubscribe(k)
    \/ \E c \in Command : execute(k, c)

Spec == Init /\ [][Next]_vars

-----------------------------------------------------------------------------
(* Properties. *)

\* No borrower's command ends up in the transaction of another one: what a
\* MULTI holds was sent in the loan that is running, and a client that was given
\* back inside a MULTI does not carry it into the next loan.
NoCrossLoan ==
  \A k \in Client : loan[k] # 0 => queued[k] \subseteq {loan[k]}

\* A wrapper that returns true did what it was asked to do, unless the command
\* was queued in a MULTI, or it is one of those (get(), hget(), lpop(), rpop(),
\* hset(), publish()) that take an error for an answer.
TrueMeansDone ==
  last.result =>
    \/ last.done
    \/ last.queued
    \/ last.command \in {"value", "valid"} /\ last.type = "ERROR"
=============================================================================
