------------------------------- MODULE Login -------------------------------
(***************************************************************************)
(* LoginModule over the tokens in Redis, and the sessions of SessionPool.  *)
(* A request runs in a thread step by step: a command of Redis is one      *)
(* step, so a disconnect (logout, release) may come between the steps of a *)
(* login on the same session.  The logins of a session follow each other.  *)
(* A command of Redis is carried out or not, and handleLogin() and         *)
(* handleLogout() do not look at its result.                               *)
(***************************************************************************)
EXTENDS Naturals, Sequences

CONSTANTS Thread,
          Account,
          MaxToken,    \* bound on the logins
          Capacity,    \* SessionPool::capacity_
          MaxSession   \* bound on the sessions

VARIABLES store,     \* the keys "token:<token>": token -> account
          online,    \* the keys "online:<account>"
          tokens,    \* tokens generated so far
          player,    \* session -> playerId_
          token,     \* session -> token_
          pool_,     \* SessionPool::pool_
          nextId_,   \* SessionPool::nextId_
          op,        \* thread -> what its request does next
          revoked,   \* history: tokens deleted by a logout
          tenant,    \* history: session -> the account that logged in since acquire()
          overlap    \* history: sessions released while a request used them

redis == <<store, online>>
session == <<player, token>>
pool == <<pool_, nextId_>>
history == <<revoked, tenant, overlap>>
vars == <<redis, tokens, session, pool, op, history>>

Session == 1..MaxSession
Nobody == 0
NoToken == 0
Idle == [do |-> "idle"]

Does(t, step) == op[t].do = step
Then(t, next) == op' = [op EXCEPT ![t] = next]
Uses(t, s) == op[t] # Idle /\ op[t].session = s
LoggingIn(s) == \E t \in Thread : Uses(t, s) /\ op[t].do \in {"setToken", "setOnline", "finish"}
Pooled == { pool_[i] : i \in DOMAIN pool_ }
Acquired == (1..nextId_) \ Pooled

-----------------------------------------------------------------------------
(* handleLogin(). *)

\* The account exists and is not banned, the password is right: a token is
\* generated.  Without a client of Redis the keys are not set.
handleLogin(t, s, a) ==
  /\ op[t] = Idle /\ s \in Acquired /\ ~LoggingIn(s)
  /\ tokens < MaxToken
  /\ tokens' = tokens + 1
  /\ \E step \in {"setToken", "finish"} :
       Then(t, [do |-> step, session |-> s, account |-> a, token |-> tokens + 1])
  /\ UNCHANGED <<redis, session, pool, history>>

\* SET token:<token>, with an expiry of a day.
setTokenKey(t) ==
  /\ Does(t, "setToken")
  /\ store' \in {store, [store EXCEPT ![op[t].token] = op[t].account]}
  /\ Then(t, [op[t] EXCEPT !.do = "setOnline"])
  /\ UNCHANGED <<online, tokens, session, pool, history>>

\* SET online:<account>.
setOnlineKey(t) ==
  /\ Does(t, "setOnline")
  /\ online' \in {online, online \union {op[t].account}}
  /\ Then(t, [op[t] EXCEPT !.do = "finish"])
  /\ UNCHANGED <<store, tokens, session, pool, history>>

\* Mutation of finishLogin: the session has the token before Redis has it.
finishLoginFirst(t) ==
  /\ op[t].do \in {"setToken", "finish"} /\ token[op[t].session] # op[t].token
  /\ player' = [player EXCEPT ![op[t].session] = op[t].account]
  /\ token' = [token EXCEPT ![op[t].session] = op[t].token]
  /\ tenant' = [tenant EXCEPT ![op[t].session] = op[t].account]
  /\ UNCHANGED <<op, redis, tokens, pool, revoked, overlap>>

\* After the UPDATE of last_login_time the session gets its player and token.
finishLogin(t) ==
  /\ Does(t, "finish")
  /\ player' = [player EXCEPT ![op[t].session] = op[t].account]
  /\ token' = [token EXCEPT ![op[t].session] = op[t].token]
  /\ tenant' = [tenant EXCEPT ![op[t].session] = op[t].account]
  /\ Then(t, Idle)
  /\ UNCHANGED <<redis, tokens, pool, revoked, overlap>>

-----------------------------------------------------------------------------
(* handleLogout(); the session keeps its player and its token. *)

handleLogout(t, s) ==
  /\ op[t] = Idle /\ s \in Acquired
  /\ Then(t, [do |-> "delOnline", session |-> s])
  /\ UNCHANGED <<redis, tokens, session, pool, history>>

delOnlineKey(t) ==
  /\ Does(t, "delOnline")
  /\ online' \in {online, online \ {player[op[t].session]}}
  /\ Then(t, [op[t] EXCEPT !.do = "delToken"])
  /\ UNCHANGED <<store, tokens, session, pool, history>>

delTokenKey(t) ==
  LET k == token[op[t].session] IN
  /\ Does(t, "delToken")
  /\ \/ UNCHANGED <<store, revoked>>
     \/ /\ k # NoToken
        /\ store' = [store EXCEPT ![k] = Nobody]
        /\ revoked' = revoked \union {k}
  /\ Then(t, Idle)
  /\ UNCHANGED <<online, tokens, session, pool, tenant, overlap>>

\* A key is gone after its day, or with a restart of Redis.
Expire ==
  /\ \/ \E k \in 1..tokens : store' = [store EXCEPT ![k] = Nobody] /\ UNCHANGED online
     \/ \E a \in Account : online' = online \ {a} /\ UNCHANGED store
  /\ UNCHANGED <<tokens, session, pool, op, history>>

verifyToken(k, a) == store[k] = a

-----------------------------------------------------------------------------
(* SessionPool. *)

\* acquire() preallocates when the pool is empty, and takes the last session.
acquire ==
  LET new == [i \in 1..Capacity |-> nextId_ + i]
      from == IF pool_ = <<>> THEN new ELSE pool_
      s == from[Len(from)]
  IN  /\ pool_ = <<>> => nextId_ + Capacity <= MaxSession
      /\ nextId_' = IF pool_ = <<>> THEN nextId_ + Capacity ELSE nextId_
      /\ pool_' = SubSeq(from, 1, Len(from) - 1)
      /\ tenant' = [tenant EXCEPT ![s] = Nobody]
      /\ UNCHANGED <<redis, tokens, session, op, revoked, overlap>>

\* Mutation of release: the player stays.
releaseAsIs(s) ==
  /\ s \in Acquired
  /\ token' = [token EXCEPT ![s] = NoToken]
  /\ pool_' = Append(pool_, s)
  /\ UNCHANGED <<redis, tokens, player, nextId_, op, history>>

\* release() clears the session and puts it back; the connection stays in it.
release(s) ==
  /\ s \in Acquired
  /\ player' = [player EXCEPT ![s] = Nobody]
  /\ token' = [token EXCEPT ![s] = NoToken]
  /\ pool_' = Append(pool_, s)
  /\ overlap' = IF LoggingIn(s) THEN overlap \union {s} ELSE overlap
  /\ UNCHANGED <<redis, tokens, nextId_, op, revoked, tenant>>

Init ==
  /\ store = [k \in 1..MaxToken |-> Nobody] /\ online = {} /\ tokens = 0
  /\ player = [s \in Session |-> Nobody] /\ token = [s \in Session |-> NoToken]
  /\ pool_ = [i \in 1..Capacity |-> i] /\ nextId_ = Capacity
  /\ op = [t \in Thread |-> Idle]
  /\ revoked = {} /\ tenant = [s \in Session |-> Nobody] /\ overlap = {}

Next ==
  \/ \E t \in Thread :
       \/ \E s \in Session, a \in Account : handleLogin(t, s, a)
       \/ \E s \in Session : handleLogout(t, s)
       \/ setTokenKey(t) \/ setOnlineKey(t) \/ finishLogin(t)
       \/ delOnlineKey(t) \/ delTokenKey(t)
  \/ \E s \in Session : release(s)
  \/ acquire
  \/ Expire

Spec == Init /\ [][Next]_vars

-----------------------------------------------------------------------------
(* Properties. *)

\* The token a logout deleted is dead: no step of a login that is still under
\* way, on this session or on another one of the account, brings it back.
LogoutRevokes == \A k \in revoked, a \in Account : ~verifyToken(k, a)

\* A session of the pool is anonymous, and whoever acquired a session meets in
\* it no player but the one who logged in since, unless it was released while a
\* login on it was under way.
IdentityOwn ==
  \A s \in Session \ overlap :
    player[s] = IF s \in Acquired THEN tenant[s] ELSE Nobody
=============================================================================
