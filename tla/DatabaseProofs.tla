-------------------------- MODULE DatabaseProofs --------------------------
(***************************************************************************)
(* What the Database and ConnectionPool runs check, for every number of    *)
(* threads, roles, names, clients, sessions, teams and friends: the pools, *)
(* then the components of MCDatabase one after the other, and at the end   *)
(* the run itself.                                                         *)
(***************************************************************************)
EXTENDS ConnectionPool, MCDatabase, TLAPS, FiniteSetTheorems

\* Outside of init() and close(), a client is inside getConnection() or has a
\* connection only after init() has succeeded, and a closed pool is empty
\* except for what late clients create.
Phases ==
    /\ phase \in {"built", "failed"} => \A c \in Client : client[c] = "out"
    /\ phase = "built" => pool = <<>> /\ all = {} /\ created = 0
    /\ phase = "closed" => pool = <<>>
    /\ \A c \in Client : held[c] # NoConn <=> client[c] = "holding"

\* Every connection that is pooled, listed or held was created.
Known ==
    /\ \A i \in DOMAIN pool : pool[i] <= created
    /\ \A c \in Client : held[c] # NoConn => held[c] <= created
    /\ all \subseteq 1..created

\* What leaving and notifying does to the clients.
LEMMA LeaveAndNotifyStep ==
    ASSUME TypeOK, NEW c \in Client, client[c] = "holding", LeaveAndNotify(c)
    PROVE  /\ client' \in [Client -> ClientState]
           /\ client'[c] = "out"
           /\ \A d \in Client \ {c} :
                 \/ client'[d] = client[d]
                 \/ client[d] = "waiting" /\ client'[d] = "woken"
<1>1. CASE In("waiting") = {} /\ client' = [client EXCEPT ![c] = "out"]
  BY <1>1 DEF TypeOK, ClientState
<1>2. ASSUME NEW w \in In("waiting"),
             client' = [client EXCEPT ![c] = "out", ![w] = "woken"]
      PROVE  /\ client' \in [Client -> ClientState]
             /\ client'[c] = "out"
             /\ \A d \in Client \ {c} :
                   \/ client'[d] = client[d]
                   \/ client[d] = "waiting" /\ client'[d] = "woken"
  BY <1>2 DEF TypeOK, ClientState, In
<1> QED
  BY <1>1, <1>2 DEF LeaveAndNotify

\* Every step keeps the types.
LEMMA TypeStep ==
    ASSUME TypeOK, Phases, [Next]_vars
    PROVE  TypeOK'
<1> USE PoolConfigAssumption, NoConnAssumption DEF TypeOK, Conn
<1>1. CASE initPool
  <2>1. PICK n \in 0..MinConnections :
           /\ pool' = [i \in 1..n |-> i] /\ all' = 1..n /\ created' = n
           /\ phase' = IF n = MinConnections THEN "running" ELSE "failed"
    BY <1>1 DEF initPool
  <2>2. pool' \in Seq(Conn)
    <3>1. n \in Nat /\ \A i \in 1..n : i \in Conn
      BY <2>1
    <3> QED
      BY <2>1, <3>1
  <2> QED
    BY <1>1, <2>1, <2>2 DEF initPool, Phase
<1>2. CASE checkConnections
  BY <1>2 DEF checkConnections
<1>3. CASE close
  BY <1>3 DEF close, connVars, Phase, ClientState
<1>4. CASE LinkBreaks
  BY <1>4 DEF LinkBreaks
<1>5. ASSUME NEW c \in Client, CreateNew(c)
      PROVE  TypeOK'
  BY <1>5 DEF CreateNew, Hold, ClientState
<1>6. ASSUME NEW c \in Client, Wait(c) \/ Timeout(c) \/ SpuriousWakeup(c)
      PROVE  TypeOK'
  BY <1>6 DEF Wait, Timeout, SpuriousWakeup, connVars, ClientState
<1>7. ASSUME NEW c \in Client, TakeFront(c)
      PROVE  TypeOK'
  <2>1. Head(pool) \in Conn /\ Tail(pool) \in Seq(Conn)
    BY <1>7 DEF TakeFront
  <2> QED
    BY <1>7, <2>1 DEF TakeFront, Hold, ClientState
<1>8. ASSUME NEW c \in Client, TakeDead(c)
      PROVE  TypeOK'
  <2>1. Tail(pool) \in Seq(Conn)
    BY <1>8 DEF TakeDead
  <2> QED
    BY <1>8, <2>1 DEF TakeDead, connVars, ClientState
<1>9. ASSUME NEW c \in Client, returnConnection(c)
      PROVE  TypeOK'
  <2>1. held[c] \in Conn
    BY <1>9 DEF returnConnection, Phases
  <2>2. pool' \in Seq(Conn)
    <3>1. Append(pool, held[c]) \in Seq(Conn)
      BY <2>1
    <3> QED
      BY <1>9, <3>1 DEF returnConnection
  <2>3. client' \in [Client -> ClientState]
    <3>1. CASE LeaveAndNotify(c)
      BY <1>9, <3>1, LeaveAndNotifyStep DEF returnConnection
    <3>2. CASE client' = [client EXCEPT ![c] = "out"]
      BY <3>2 DEF ClientState
    <3> QED
      BY <1>9, <3>1, <3>2 DEF returnConnection
  <2> QED
    BY <1>9, <2>2, <2>3 DEF returnConnection, connVars
<1>10. CASE UNCHANGED vars
  BY <1>10 DEF vars
<1> QED
  BY <1>1, <1>2, <1>3, <1>4, <1>5, <1>6, <1>7, <1>8, <1>9, <1>10 DEF Next, GetStep

\* Every step keeps the phases.
LEMMA PhasesStep ==
    ASSUME TypeOK, Phases, [Next]_vars
    PROVE  Phases'
<1> USE PoolConfigAssumption, NoConnAssumption DEF TypeOK, Phases, Conn
<1>1. CASE initPool
  BY <1>1 DEF initPool
<1>2. CASE checkConnections \/ LinkBreaks
  BY <1>2 DEF checkConnections, LinkBreaks
<1>3. CASE close
  BY <1>3 DEF close
<1>4. ASSUME NEW c \in Client, CreateNew(c)
      PROVE  Phases'
  BY <1>4 DEF CreateNew, AtLoop, Running, Hold
<1>5. ASSUME NEW c \in Client, Wait(c) \/ Timeout(c) \/ SpuriousWakeup(c)
      PROVE  Phases'
  BY <1>5 DEF Wait, AtLoop, Running, Timeout, SpuriousWakeup, connVars
<1>6. ASSUME NEW c \in Client, TakeFront(c)
      PROVE  Phases'
  <2>1. Head(pool) \in Conn
    BY <1>6 DEF TakeFront
  <2> QED
    BY <1>6, <2>1 DEF TakeFront, AtLoop, Running, Hold
<1>7. ASSUME NEW c \in Client, TakeDead(c)
      PROVE  Phases'
  BY <1>7 DEF TakeDead, AtLoop, Running, connVars
<1>8. ASSUME NEW c \in Client, returnConnection(c)
      PROVE  Phases'
  <2>1. /\ client'[c] = "out"
        /\ \A d \in Client \ {c} : client'[d] = "holding" <=> client[d] = "holding"
    BY <1>8, LeaveAndNotifyStep DEF returnConnection
  <2>2. phase' = phase /\ phase \notin {"built", "failed"}
    BY <1>8 DEF returnConnection
  <2>3. phase = "closed" => pool' = <<>>
    BY <1>8 DEF returnConnection, Running
  <2> QED
    BY <1>8, <2>1, <2>2, <2>3 DEF returnConnection
<1>9. CASE UNCHANGED vars
  BY <1>9 DEF vars
<1> QED
  BY <1>1, <1>2, <1>3, <1>4, <1>5, <1>6, <1>7, <1>8, <1>9 DEF Next, GetStep

-----------------------------------------------------------------------------
\* What popping the front of a queue leaves.
LEMMA TailFacts ==
    ASSUME NEW S, NEW q \in Seq(S), q # <<>>
    PROVE  /\ 1 \in DOMAIN q /\ Head(q) = q[1] /\ Head(q) \in S
           /\ Len(Tail(q)) = Len(q) - 1 /\ Len(q) \in Nat
           /\ \A i \in DOMAIN Tail(q) :
                 i \in Nat /\ i + 1 # 1 /\ i + 1 \in DOMAIN q /\ Tail(q)[i] = q[i + 1]
  OBVIOUS

\* What pushing to a queue adds.
LEMMA AppendFacts ==
    ASSUME NEW S, NEW q \in Seq(S), NEW x \in S
    PROVE  /\ Len(Append(q, x)) = Len(q) + 1 /\ Len(q) \in Nat
           /\ \A i \in DOMAIN Append(q, x) :
                 \/ i \in DOMAIN q /\ Append(q, x)[i] = q[i]
                 \/ i = Len(q) + 1 /\ Append(q, x)[i] = x
  OBVIOUS

\* The connections of a running pool and of its clients are listed.
Listed ==
    Running => /\ \A i \in DOMAIN pool : pool[i] \in all
               /\ \A c \in Client : held[c] # NoConn => held[c] \in all

\* Every step keeps each connection in one place, known and listed.
LEMMA OwnershipStep ==
    ASSUME TypeOK, Phases, ExclusiveUse, Known, Listed, [Next]_vars
    PROVE  ExclusiveUse' /\ Known' /\ Listed'
<1> DEFINE Goal == ExclusiveUse' /\ Known' /\ Listed'
<1> USE PoolConfigAssumption, NoConnAssumption DEF ExclusiveUse, Known, Listed
<1>0. /\ created \in Nat /\ Len(pool) \in Nat
      /\ \A i \in DOMAIN pool : pool[i] \in Nat
      /\ \A c \in Client : held[c] \in Nat \cup {NoConn}
  BY DEF TypeOK, Conn
<1>1. CASE initPool
  <2>1. PICK n \in 0..MinConnections :
           pool' = [i \in 1..n |-> i] /\ all' = 1..n /\ created' = n
    BY <1>1 DEF initPool
  <2>2. \A c \in Client : held'[c] = NoConn
    BY <1>1 DEF initPool, Phases
  <2>3. DOMAIN pool' = 1..n /\ \A i \in 1..n : pool'[i] = i
    BY <2>1
  <2> QED
    BY <2>1, <2>2, <2>3 DEF TypeOK
<1>2. CASE UNCHANGED <<phase, pool, all, held, created>>
  BY <1>2 DEF Running
<1>3. CASE checkConnections \/ LinkBreaks \/ UNCHANGED vars
  BY <1>2, <1>3 DEF checkConnections, LinkBreaks, vars
<1>4. CASE close
  BY <1>4, <1>0 DEF close, connVars, Running
<1>5. ASSUME NEW c \in Client, CreateNew(c)
      PROVE  Goal
  <2>1. /\ created' = created + 1 /\ pool' = pool /\ pool = <<>>
        /\ all' = all \cup {created + 1}
        /\ held' = [held EXCEPT ![c] = created + 1]
        /\ phase' = phase
    BY <1>5 DEF CreateNew, Hold
  <2>2. \A d \in Client : held[d] # created + 1
    BY <1>0
  <2>3. DOMAIN pool' = {}
    BY <2>1
  <2>4. \A d \in Client : held'[d] = IF d = c THEN created + 1 ELSE held[d]
    BY <2>1 DEF TypeOK
  <2>5. ExclusiveUse'
    BY <2>2, <2>3, <2>4
  <2>6. Known'
    <3>1. all' \subseteq 1..created'
      BY <2>1, <1>0
    <3>2. \A d \in Client : held'[d] # NoConn => held'[d] <= created'
      BY <2>1, <2>4, <1>0
    <3> QED
      BY <2>3, <3>1, <3>2
  <2>7. Listed'
    BY <2>1, <2>3, <2>4 DEF Running
  <2> QED
    BY <2>5, <2>6, <2>7
<1>6. ASSUME NEW c \in Client, Wait(c) \/ Timeout(c) \/ SpuriousWakeup(c)
      PROVE  Goal
  BY <1>2, <1>6 DEF Wait, Timeout, SpuriousWakeup, connVars
<1>7. ASSUME NEW c \in Client, TakeFront(c) \/ TakeDead(c)
      PROVE  Goal
  <2>1. /\ pool # <<>> /\ pool' = Tail(pool) /\ pool \in Seq(Conn)
        /\ UNCHANGED <<phase, all, created>>
    BY <1>7 DEF TakeFront, TakeDead, connVars, TypeOK
  <2>2. /\ 1 \in DOMAIN pool /\ Head(pool) = pool[1] /\ Head(pool) \in Conn
        /\ \A i \in DOMAIN pool' :
              i \in Nat /\ i + 1 # 1 /\ i + 1 \in DOMAIN pool /\ pool'[i] = pool[i + 1]
    BY <2>1, TailFacts
  <2>3. \A d \in Client :
           held'[d] = held[d] \/ (d = c /\ held'[d] = Head(pool))
    BY <1>7 DEF TakeFront, TakeDead, Hold, TypeOK
  <2>4. \A i, j \in DOMAIN pool' : pool'[i] = pool'[j] => i = j
    <3>1. SUFFICES ASSUME NEW i \in DOMAIN pool', NEW j \in DOMAIN pool',
                          pool'[i] = pool'[j]
                   PROVE  i = j
      OBVIOUS
    <3>2. i + 1 = j + 1 /\ i \in Nat /\ j \in Nat
      BY <2>2, <3>1
    <3> QED
      BY <3>2
  <2>5. \A i \in DOMAIN pool' : pool'[i] # Head(pool)
    BY <2>2
  <2>6. \A d \in Client : \A i \in DOMAIN pool' : held'[d] # pool'[i]
    BY <2>2, <2>3, <2>5
  <2>7. \A d \in Client : held[d] # Head(pool)
    BY <2>2
  <2>8. \A d, e \in Client : held'[d] # NoConn /\ held'[d] = held'[e] => d = e
    BY <2>3, <2>7
  <2>9. Known'
    BY <2>1, <2>2, <2>3
  <2>10. Listed'
    BY <2>1, <2>2, <2>3 DEF Running
  <2> QED
    BY <2>4, <2>6, <2>8, <2>9, <2>10
<1>8. ASSUME NEW c \in Client, returnConnection(c)
      PROVE  Goal
  <2>1. held[c] \in Conn /\ held[c] # NoConn /\ pool \in Seq(Conn)
    BY <1>8 DEF returnConnection, Phases, TypeOK, Conn
  <2>2. /\ \A d \in Client : held'[d] = IF d = c THEN NoConn ELSE held[d]
        /\ UNCHANGED <<phase, all, created>>
        /\ pool' = pool \/ pool' = Append(pool, held[c])
    BY <1>8 DEF returnConnection, connVars, TypeOK
  <2>3. \A d \in Client : held'[d] # held[c]
    BY <2>1, <2>2
  <2>4. CASE pool' = pool
    BY <2>2, <2>4, <1>0 DEF Running
  <2>5. CASE pool' = Append(pool, held[c])
    <3>1. \A i \in DOMAIN pool' :
             \/ i \in DOMAIN pool /\ pool'[i] = pool[i]
             \/ i = Len(pool) + 1 /\ pool'[i] = held[c]
      BY <2>1, <2>5, AppendFacts
    <3>2. \A i, j \in DOMAIN pool' : pool'[i] = pool'[j] => i = j
      BY <3>1
    <3>3. \A d \in Client : \A i \in DOMAIN pool' : held'[d] # pool'[i]
      BY <2>1, <2>2, <2>3, <3>1, <1>0
    <3>4. Known'
      BY <2>1, <2>2, <3>1
    <3>5. Listed'
      BY <2>1, <2>2, <3>1 DEF Running
    <3> QED
      BY <2>2, <3>2, <3>3, <3>4, <3>5
  <2> QED
    BY <2>2, <2>4, <2>5
<1> QED
  BY <1>1, <1>3, <1>4, <1>5, <1>6, <1>7, <1>8 DEF Next, GetStep

\* allConnections_ stays within its configured size.
Bounded == Cardinality(all) <= MaxConnections \/ Cardinality(all) <= MinConnections

\* Every step keeps that bound.
LEMMA BoundedStep ==
    ASSUME TypeOK, Known, Bounded, [Next]_vars
    PROVE  Bounded'
<1> USE PoolConfigAssumption DEF Bounded
<1>1. CASE UNCHANGED all
  BY <1>1
<1>2. CASE initPool
  <2>1. PICK n \in 0..MinConnections : all' = 1..n
    BY <1>2 DEF initPool
  <2>2. Cardinality(all') = n
    BY <2>1, FS_Interval
  <2> QED
    BY <2>1, <2>2
<1>3. CASE close
  BY <1>3, FS_EmptySet DEF close
<1>4. ASSUME NEW c \in Client, CreateNew(c)
      PROVE  Bounded'
  <2>1. IsFiniteSet(all) /\ Cardinality(all) \in Nat
    <3>1. IsFiniteSet(Conn)
      BY FS_Interval DEF Conn
    <3> QED
      BY <3>1, FS_Subset, FS_CardinalityType DEF TypeOK
  <2>2. created + 1 \notin all
    BY DEF TypeOK, Known
  <2>3. Cardinality(all') = Cardinality(all) + 1
    BY <1>4, <2>1, <2>2, FS_AddElement DEF CreateNew
  <2> QED
    BY <1>4, <2>1, <2>3 DEF CreateNew
<1>5. ASSUME NEW c \in Client,
             \/ Wait(c) \/ TakeFront(c) \/ TakeDead(c)
             \/ Timeout(c) \/ SpuriousWakeup(c) \/ returnConnection(c)
      PROVE  UNCHANGED all
  BY <1>5 DEF Wait, TakeFront, TakeDead, Timeout, SpuriousWakeup, returnConnection
<1> QED
  BY <1>1, <1>2, <1>3, <1>4, <1>5
  DEF Next, GetStep, checkConnections, LinkBreaks, vars

\* There are finitely many clients, so any set of them has a cardinality.
LEMMA ClientsFinite ==
    ASSUME NEW S, S \subseteq Client
    PROVE  IsFiniteSet(S) /\ Cardinality(S) \in Nat
  BY ClientAssumption, FS_Subset, FS_CardinalityType

\* Every step keeps a woken client on its way to every pooled connection
\* while some client waits.
LEMMA WakeupStep ==
    ASSUME TypeOK, TypeOK', Phases, NoLostWakeup, [Next]_vars
    PROVE  NoLostWakeup'
<1> DEFINE W == In("waiting")
<1> DEFINE K == In("woken")
<1>0. /\ IsFiniteSet(K) /\ Cardinality(K) \in Nat
      /\ IsFiniteSet(K') /\ Cardinality(K') \in Nat
      /\ Len(pool) \in Nat
  BY ClientsFinite DEF In, TypeOK
<1>1. SUFFICES ASSUME W' # {}
               PROVE  Len(pool') <= Cardinality(K')
  BY DEF NoLostWakeup
<1>2. W # {} => Len(pool) <= Cardinality(K)
  BY DEF NoLostWakeup
<1>3. CASE W # {} /\ pool' = pool /\ K \subseteq K'
  <2>1. Cardinality(K) <= Cardinality(K')
    BY <1>0, <1>3, FS_Subset
  <2> QED
    BY <1>0, <1>2, <1>3, <2>1
<1>4. CASE pool' = <<>>
  BY <1>0, <1>4
<1>5. CASE UNCHANGED <<pool, client>>
  BY <1>1, <1>3, <1>5 DEF In
<1>6. CASE initPool
  BY <1>1, <1>6 DEF initPool, Phases, In
<1>7. CASE close
  BY <1>4, <1>7 DEF close
<1>8. ASSUME NEW c \in Client, CreateNew(c) \/ Wait(c)
      PROVE  Len(pool') <= Cardinality(K')
  BY <1>4, <1>8 DEF CreateNew, Wait
<1>9. ASSUME NEW c \in Client, Timeout(c) \/ SpuriousWakeup(c)
      PROVE  Len(pool') <= Cardinality(K')
  <2>1. c \in W /\ pool' = pool
    BY <1>9 DEF Timeout, SpuriousWakeup, In
  <2>2. K \subseteq K'
    BY <1>9 DEF Timeout, SpuriousWakeup, In, TypeOK
  <2> QED
    BY <1>3, <2>1, <2>2
<1>10. ASSUME NEW c \in Client, TakeFront(c) \/ TakeDead(c)
       PROVE  Len(pool') <= Cardinality(K')
  <2>1. Len(pool') = Len(pool) - 1
    <3>1. pool # <<>> /\ pool' = Tail(pool) /\ pool \in Seq(Conn)
      BY <1>10 DEF TakeFront, TakeDead, TypeOK
    <3> QED
      BY <3>1, TailFacts
  <2>2. \E s \in {"out", "holding"} : client' = [client EXCEPT ![c] = s]
    BY <1>10 DEF TakeFront, TakeDead, Hold
  <2>3. K' = K \ {c} /\ W' \subseteq W
    BY <2>2 DEF In, TypeOK
  <2>4. Cardinality(K') = IF c \in K THEN Cardinality(K) - 1 ELSE Cardinality(K)
    BY <1>0, <2>3, FS_RemoveElement
  <2> QED
    BY <1>0, <1>1, <1>2, <2>1, <2>3, <2>4
<1>11. ASSUME NEW c \in Client, returnConnection(c)
       PROVE  Len(pool') <= Cardinality(K')
  <2>1. client[c] = "holding" /\ held[c] \in Conn /\ pool \in Seq(Conn)
    BY <1>11 DEF returnConnection, Phases, TypeOK
  <2>2. CASE Running
    <3>1. pool' = Append(pool, held[c]) /\ LeaveAndNotify(c)
      BY <1>11, <2>2 DEF returnConnection
    <3>2. Len(pool') = Len(pool) + 1
      BY <2>1, <3>1, AppendFacts
    <3>3. CASE client' = [client EXCEPT ![c] = "out"] /\ W = {}
      BY <1>1, <3>3 DEF In, TypeOK
    <3>4. ASSUME NEW w \in W, client' = [client EXCEPT ![c] = "out", ![w] = "woken"]
          PROVE  Len(pool') <= Cardinality(K')
      <4>1. w \in Client /\ w # c /\ w \notin K
        BY <2>1 DEF In
      <4>2. K' = K \cup {w}
        BY <2>1, <3>4, <4>1 DEF In, TypeOK
      <4>3. Cardinality(K') = Cardinality(K) + 1
        BY <1>0, <4>1, <4>2, FS_AddElement
      <4> QED
        BY <1>0, <1>2, <3>2, <3>4, <4>3
    <3> QED
      BY <3>1, <3>3, <3>4 DEF LeaveAndNotify
  <2>3. CASE ~Running
    <3>1. pool' = pool /\ client' = [client EXCEPT ![c] = "out"]
      BY <1>11, <2>3 DEF returnConnection
    <3>2. K' = K /\ W' = W
      BY <2>1, <3>1 DEF In, TypeOK
    <3> QED
      BY <1>1, <1>3, <3>1, <3>2
  <2> QED
    BY <2>2, <2>3
<1>12. CASE checkConnections \/ LinkBreaks \/ UNCHANGED vars
  BY <1>5, <1>12 DEF checkConnections, LinkBreaks, vars
<1> QED
  BY <1>6, <1>7, <1>8, <1>9, <1>10, <1>11, <1>12 DEF Next, GetStep

-----------------------------------------------------------------------------
\* The inductive invariant of the connection pool.
PoolInv ==
    /\ TypeOK /\ Phases
    /\ ExclusiveUse /\ Known /\ Listed
    /\ Bounded /\ NoLostWakeup

\* The pool and its clients never leave PoolInv.
THEOREM PoolInvariance == Spec => []PoolInv
<1>1. Init => PoolInv
  <2> SUFFICES ASSUME Init PROVE PoolInv
    OBVIOUS
  <2>1. TypeOK
    <3>1. pool \in Seq(Conn)
      BY DEF Init
    <3> QED
      BY <3>1, PoolConfigAssumption DEF Init, TypeOK, Phase, ClientState
  <2>2. Phases /\ ExclusiveUse /\ Known /\ Listed
    BY DEF Init, Phases, ExclusiveUse, Known, Listed, Running
  <2>3. Bounded
    BY FS_EmptySet, PoolConfigAssumption DEF Init, Bounded
  <2>4. NoLostWakeup
    BY DEF Init, NoLostWakeup, In
  <2> QED
    BY <2>1, <2>2, <2>3, <2>4 DEF PoolInv
<1>2. PoolInv /\ [Next]_vars => PoolInv'
  BY TypeStep, PhasesStep, OwnershipStep, BoundedStep, WakeupStep DEF PoolInv
<1> QED
  BY <1>1, <1>2, PTL DEF Spec

\* Type correctness of the connection pool.
THEOREM TypeCorrect == Spec => []TypeOK
<1>1. PoolInv => TypeOK
  BY DEF PoolInv
<1> QED
  BY <1>1, PoolInvariance, PTL

\* No connection is ever handed to two clients, or pooled while in use.
THEOREM ConnectionsExclusive == Spec => []ExclusiveUse
<1>1. PoolInv => ExclusiveUse
  BY DEF PoolInv
<1> QED
  BY <1>1, PoolInvariance, PTL

\* A running pool has every connection in use in its list, within the limit.
THEOREM ConnectionsAccounted == Spec => []Accounted
<1>1. PoolInv => Accounted
  BY DEF PoolInv, Listed, Bounded, Accounted
<1> QED
  BY <1>1, PoolInvariance, PTL

\* returnConnection() never leaves a connection beside a sleeping client.
THEOREM WakeupsDelivered == Spec => []NoLostWakeup
<1>1. PoolInv => NoLostWakeup
  BY DEF PoolInv
<1> QED
  BY <1>1, PoolInvariance, PTL

-----------------------------------------------------------------------------
(* Roles, their entities and caches. *)

\* What the step a thread is about to take relies on.
OpsSound ==
  \A t \in Thread :
    /\ op[t].do \in {"select", "uncache"} => op[t].id \in Entities!RoleId
    /\ op[t].do \in {"cache", "update"} => ref[t] # Entities!Nil
    /\ op[t].do = "update" =>
         /\ op[t].value \in Value
         /\ op[t].value = entity[ref[t]].value \/ ref[t] \in raced

\* What is referred to is an entity.
NoDangling == \A o \in Entities!Referenced \ {Entities!Nil} : entity[o] # Entities!NoEntity

\* Entities with one id have one name, that of the row.
NamesFixed ==
  /\ \A i \in Entities!Rows : i <= nextId
  /\ \A o \in Addr : entity[o] # Entities!NoEntity =>
       /\ entity[o].id <= nextId
       /\ entity[o].id \in Entities!Rows => table[entity[o].id].name = entity[o].name
  /\ \A o, p \in Addr :
       /\ entity[o] # Entities!NoEntity /\ entity[p] # Entities!NoEntity
       /\ entity[o].id = entity[p].id
       => entity[o].name = entity[p].name

\* A cached entity has the id it is cached under.
CachedUnderId ==
  \A i \in Entities!RoleId : roleCache_[i] # Entities!Nil => entity[roleCache_[i]].id = i

\* The inductive invariant of the roles.
RoleInv ==
  /\ Entities!TypeOK /\ DOMAIN op = Thread
  /\ OpsSound /\ NoDangling /\ NamesFixed /\ CachedUnderId /\ NoSilentLoss /\ CacheCoherent

-----------------------------------------------------------------------------
\* The two shapes of an entity and of a row.
LEMMA EntityFields ==
  ASSUME Entities!TypeOK, NEW o \in Addr, entity[o] # Entities!NoEntity
  PROVE  /\ entity[o] \in Entities!RoleEntity
         /\ entity[o].id \in Entities!RoleId /\ entity[o].name \in Name /\ entity[o].value \in Value
  BY DEF Entities!TypeOK, Entities!RoleEntity

\* A row is not the missing row, and an entity not the missing entity.
LEMMA ShapesDiffer ==
  /\ \A e \in Entities!RoleEntity : e # Entities!NoEntity
  /\ \A r \in [account : Account, name : Name, value : Value] : r # Entities!NoRow
<1>1. ASSUME NEW e \in Entities!RoleEntity PROVE e # Entities!NoEntity
  <2>1. DOMAIN e = {"id", "account", "name", "value", "dirty"}
    BY DEF Entities!RoleEntity
  <2>2. DOMAIN Entities!NoEntity = {"id"}
    BY DEF Entities!NoEntity
  <2> QED
    BY <2>1, <2>2
<1>2. ASSUME NEW r \in [account : Account, name : Name, value : Value] PROVE r # Entities!NoRow
  <2>1. DOMAIN r = {"account", "name", "value"}
    OBVIOUS
  <2>2. DOMAIN Entities!NoRow = {"account"}
    BY DEF Entities!NoRow
  <2> QED
    BY <2>1, <2>2
<1> QED
  BY <1>1, <1>2

\* What the columns of a row hold.
LEMMA RowFields ==
  ASSUME Entities!TypeOK, NEW i \in Entities!Rows
  PROVE  /\ i \in Entities!RoleId /\ table[i] # Entities!NoRow
         /\ table[i] \in [account : Account, name : Name, value : Value]
         /\ table[i].name \in Name /\ table[i].value \in Value /\ table[i].account \in Account
  BY DEF Entities!TypeOK, Entities!Rows, Entities!Row

\* The columns start with a value.
LEMMA DefaultIsValue == Entities!Default \in Value
  BY RolesAssumption DEF Entities!Default

\* No entity is at nullptr.
LEMMA AddrIsNotNil == Entities!Nil \notin Addr
  BY RolesAssumption DEF Entities!Nil

\* What a thread, a cache or a manager refers to.
LEMMA ReferencedFacts ==
  /\ \A t \in Thread : ref[t] \in Entities!Referenced
  /\ \A i \in Entities!RoleId : roleCache_[i] \in Entities!Referenced /\ managed[i] \in Entities!Referenced
  BY DEF Entities!Referenced

\* A pointer is nullptr or an address.
LEMMA ReferencedIsAddr ==
  ASSUME Entities!TypeOK PROVE Entities!Referenced \subseteq Addr \union {Entities!Nil}
  BY DEF Entities!TypeOK, Entities!Referenced

\* A step of thread t that changes neither the table nor entities nor caches.
Quiet(t, n, o) ==
  /\ UNCHANGED <<table, nextId, entity, roleCache_, roleNameIndex_, managed, synced, raced, late>>
  /\ op' = [op EXCEPT ![t] = n] /\ ref' = [ref EXCEPT ![t] = o]

\* Such a step keeps the invariant, if what the thread does next is sound.
LEMMA QuietStep ==
  ASSUME RoleInv, NEW t \in Thread, NEW n, NEW o \in Entities!Referenced \union {Entities!Nil},
         Quiet(t, n, o), first' \in BOOLEAN, op[t].do # "uncache", n.do # "uncache",
         n.do = "select" => n.id \in Entities!RoleId,
         n.do \in {"cache", "update"} => o # Entities!Nil,
         n.do = "update" => n.value \in Value /\ n.value = entity[o].value
  PROVE  RoleInv'
<1>0. /\ Entities!TypeOK /\ DOMAIN op = Thread /\ OpsSound /\ NoDangling /\ NamesFixed
      /\ CachedUnderId /\ NoSilentLoss /\ CacheCoherent
  BY DEF RoleInv
<1>1. /\ UNCHANGED <<table, nextId, entity, roleCache_, roleNameIndex_, managed, synced, raced, late>>
      /\ op' = [op EXCEPT ![t] = n] /\ ref' = [ref EXCEPT ![t] = o]
  BY DEF Quiet
<1>2. Entities!TypeOK' /\ DOMAIN op' = Thread
  BY <1>0, <1>1, ReferencedIsAddr DEF Entities!TypeOK
<1>3. /\ op'[t] = n /\ ref'[t] = o
      /\ \A u \in Thread \ {t} : op'[u] = op[u] /\ ref'[u] = ref[u]
  BY <1>0, <1>1 DEF Entities!TypeOK
<1>4. OpsSound'
  BY <1>0, <1>1, <1>3 DEF OpsSound
<1>5. Entities!Referenced' \subseteq Entities!Referenced \union {Entities!Nil}
  BY <1>1, <1>3 DEF Entities!Referenced
<1>6. NoDangling' /\ NoSilentLoss'
  BY <1>0, <1>1, <1>5 DEF NoDangling, NoSilentLoss, Entities!NoSilentLoss
<1>7. NamesFixed' /\ CachedUnderId'
  BY <1>0, <1>1 DEF NamesFixed, CachedUnderId, Entities!Rows
<1>8. CacheCoherent'
  BY <1>0, <1>1, <1>3 DEF CacheCoherent, Entities!CacheCoherent, Entities!ServesLiving, Entities!IndexSound,
     Entities!Rows, Entities!Does
<1> QED
  BY <1>2, <1>4, <1>6, <1>7, <1>8 DEF RoleInv

\* getRole() takes a Ptr from a cache, or goes on to the SELECT.
LEMMA getRoleStep ==
  ASSUME RoleInv, NEW t \in Thread, NEW in, NEW i \in Entities!RoleId, Entities!getRole(t, in, i)
  PROVE  RoleInv'
<1>0. Entities!TypeOK /\ op[t].do = "idle" /\ first' \in BOOLEAN
      /\ UNCHANGED <<table, nextId, entity, roleCache_, roleNameIndex_, managed, synced, raced, late>>
  BY DEF RoleInv, Entities!getRole, Entities!Does, Entities!TypeOK, Entities!database,
     Entities!caches, Entities!history
<1>1. Entities!Cache(in)[i] \in Entities!Referenced
  BY ReferencedFacts DEF Entities!Cache
<1>2. CASE Entities!Cache(in)[i] # Entities!Nil
  <2>1. Quiet(t, Entities!Idle, Entities!Cache(in)[i])
    BY <1>0, <1>2 DEF Entities!getRole, Entities!Then, Quiet
  <2>2. Entities!Idle.do = "idle"
    BY DEF Entities!Idle
  <2> QED
    BY <1>0, <1>1, <2>1, <2>2, QuietStep
<1>3. CASE Entities!Cache(in)[i] = Entities!Nil
  <2>1. PICK n : n = [do |-> "select", in |-> in, id |-> i]
    OBVIOUS
  <2>2. n.do = "select" /\ n.id = i
    BY <2>1
  <2>3. Quiet(t, n, Entities!Nil)
    BY <1>0, <1>3, <2>1 DEF Entities!getRole, Entities!Then, Quiet
  <2> QED
    BY <1>0, <2>2, <2>3, QuietStep
<1> QED
  BY <1>2, <1>3

\* save() collects the value the entity has.
LEMMA saveStep ==
  ASSUME RoleInv, NEW t \in Thread, NEW in, Entities!save(t, in)
  PROVE  RoleInv'
<1>0. /\ Entities!TypeOK /\ op[t].do = "idle" /\ first' = FALSE /\ ref[t] # Entities!Nil
      /\ UNCHANGED <<table, nextId, entity, roleCache_, roleNameIndex_, managed, synced, raced, late, ref>>
  BY DEF RoleInv, Entities!save, Entities!Does, Entities!database,
     Entities!caches, Entities!history
<1>1. PICK n : n = [do |-> "update", in |-> in, value |-> entity[ref[t]].value,
                     wellFormed |-> Entities!getUpdateSQL]
  OBVIOUS
<1>2. n.do = "update" /\ n.value = entity[ref[t]].value
  BY <1>1
<1>3. ref[t] \in Entities!Referenced /\ ref[t] \in Addr /\ entity[ref[t]] # Entities!NoEntity
  BY <1>0, ReferencedFacts, ReferencedIsAddr DEF RoleInv, NoDangling
<1>4. n.value \in Value
  BY <1>0, <1>2, <1>3, EntityFields
<1>5. ref' = [ref EXCEPT ![t] = ref[t]]
  BY <1>0 DEF Entities!TypeOK
<1>6. Quiet(t, n, ref[t])
  BY <1>0, <1>1, <1>5 DEF Entities!save, Entities!Then, Entities!bindUpdateParams, Quiet
<1> QED
  BY <1>0, <1>2, <1>3, <1>4, <1>6, QuietStep

\* A row becomes an entity at an address nobody refers to; the row may be new.
LEMMA AllocateStep ==
  ASSUME RoleInv, NEW t \in Thread, NEW in, NEW o \in Addr, NEW i \in Entities!RoleId,
         NEW row \in [account : Account, name : Name, value : Value],
         Entities!NewEntity(t, o, i, row), op[t].do # "uncache",
         Entities!Then(t, [do |-> "cache", in |-> in]),
         table'[i] = row, Entities!TypeOK', NamesFixed',
         \A j \in Entities!RoleId : table[j] # Entities!NoRow => table'[j] # Entities!NoRow,
         UNCHANGED <<roleCache_, roleNameIndex_, managed, late>>
  PROVE  RoleInv'
<1>0. /\ Entities!TypeOK /\ DOMAIN op = Thread /\ OpsSound /\ NoDangling /\ NamesFixed
      /\ CachedUnderId /\ NoSilentLoss /\ CacheCoherent
  BY DEF RoleInv
<1>1. PICK e \in Entities!RoleEntity :
        /\ e = [id |-> i, account |-> row.account, name |-> row.name, value |-> row.value,
                dirty |-> FALSE]
        /\ entity' = [entity EXCEPT ![o] = e]
  BY DEF Entities!NewEntity, Entities!RoleEntity
<1>2. /\ o \notin Entities!Referenced /\ synced' = [synced EXCEPT ![o] = row.value]
      /\ raced' = raced \ {o} /\ ref' = [ref EXCEPT ![t] = o]
  BY DEF Entities!NewEntity
<1>3. /\ entity'[o] = e /\ e.value = row.value /\ synced'[o] = row.value
      /\ \A p \in Addr \ {o} : entity'[p] = entity[p] /\ synced'[p] = synced[p]
  BY <1>0, <1>1, <1>2 DEF Entities!TypeOK
<1>4. PICK n : n = [do |-> "cache", in |-> in]
  OBVIOUS
<1>5. /\ n.do = "cache" /\ op' = [op EXCEPT ![t] = n] /\ op'[t] = n /\ ref'[t] = o
      /\ \A u \in Thread \ {t} : op'[u] = op[u] /\ ref'[u] = ref[u]
  BY <1>0, <1>2, <1>4 DEF Entities!Then, Entities!TypeOK
<1>6. DOMAIN op' = Thread
  BY <1>0, <1>5
<1>7. \A u \in Thread : ref[u] # o
  BY <1>2, ReferencedFacts
<1>8. OpsSound'
  <2>1. ASSUME NEW u \in Thread \ {t}, op[u].do = "update"
        PROVE  entity'[ref[u]] = entity[ref[u]]
    BY <1>0, <1>3, <1>7, <2>1 DEF OpsSound, Entities!TypeOK
  <2> QED
    BY <1>0, <1>2, <1>5, <1>7, <2>1, AddrIsNotNil DEF OpsSound
<1>9. Entities!Referenced' \subseteq Entities!Referenced \union {o}
  BY <1>5 DEF Entities!Referenced
<1>10. NoDangling'
  <2>1. entity'[o] # Entities!NoEntity
    BY <1>3, ShapesDiffer
  <2> QED
    BY <1>0, <1>3, <1>9, <2>1, ReferencedIsAddr DEF NoDangling
<1>11. NoSilentLoss'
  <2>1. entity'[o].value = synced'[o]
    BY <1>3
  <2>2. ASSUME NEW p \in Entities!Referenced' \ {Entities!Nil}, p # o
        PROVE  entity'[p].dirty \/ entity'[p].value = synced'[p] \/ p \in raced'
    <3>1. p \in Entities!Referenced \ {Entities!Nil} /\ p \in Addr
      BY <1>0, <1>9, <2>2, ReferencedIsAddr
    <3>2. entity'[p] = entity[p] /\ synced'[p] = synced[p]
      BY <1>3, <2>2, <3>1
    <3>3. entity[p].dirty \/ entity[p].value = synced[p] \/ p \in raced
      BY <1>0, <3>1 DEF NoSilentLoss, Entities!NoSilentLoss
    <3> QED
      BY <1>2, <2>2, <3>2, <3>3
  <2> QED
    BY <2>1, <2>2 DEF NoSilentLoss, Entities!NoSilentLoss
<1>12. \A j \in Entities!RoleId : roleCache_[j] # o
  BY <1>2, ReferencedFacts
<1>13. CacheCoherent'
  <2>1. ASSUME NEW j \in Entities!RoleId PROVE Entities!ServesLiving(j)'
    <3>1. Entities!ServesLiving(j)
      BY <1>0 DEF CacheCoherent, Entities!CacheCoherent
    <3> QED
      BY <1>5, <3>1 DEF Entities!ServesLiving, Entities!Rows, Entities!Does
  <2>2. ASSUME NEW m \in Name PROVE Entities!IndexSound(m)'
    <3>1. Entities!IndexSound(m)
      BY <1>0 DEF CacheCoherent, Entities!CacheCoherent
    <3>2. ASSUME roleNameIndex_[m] # Entities!Nil
          PROVE  entity'[roleCache_[roleNameIndex_[m]]] = entity[roleCache_[roleNameIndex_[m]]]
      <4>1. roleNameIndex_[m] \in Entities!RoleId
        BY <1>0, <3>2 DEF Entities!TypeOK
      <4>2. roleCache_[roleNameIndex_[m]] \in Addr \ {o}
        BY <1>0, <1>12, <3>1, <3>2, <4>1 DEF Entities!IndexSound, Entities!TypeOK
      <4> QED
        BY <1>3, <4>2
    <3> QED
      BY <3>1, <3>2 DEF Entities!IndexSound
  <2> QED
    BY <2>1, <2>2 DEF CacheCoherent, Entities!CacheCoherent
<1>14. CachedUnderId'
  BY <1>0, <1>3, <1>12 DEF CachedUnderId, Entities!TypeOK
<1> QED
  BY <1>6, <1>8, <1>10, <1>11, <1>13, <1>14 DEF RoleInv

\* The entity of a row keeps the names fixed, if the row has a name the other
\* entities with its id have too.
LEMMA AllocateNames ==
  ASSUME RoleInv, NEW t \in Thread, NEW o \in Addr, NEW i \in Entities!RoleId,
         NEW row \in [account : Account, name : Name, value : Value],
         Entities!NewEntity(t, o, i, row), table'[i] = row,
         table' \in [Entities!RoleId -> Entities!Row], nextId' \in 0..MaxRole,
         UNCHANGED <<roleCache_, roleNameIndex_, managed, first, late>>,
         i <= nextId',
         \A p \in Addr : entity[p] # Entities!NoEntity => entity[p].id <= nextId',
         \A p \in Addr : entity[p] # Entities!NoEntity /\ entity[p].id \in Entities!Rows'
                       => table'[entity[p].id].name = entity[p].name,
         \A j \in Entities!Rows' : j <= nextId'
  PROVE  Entities!TypeOK' /\ NamesFixed'
<1>0. Entities!TypeOK /\ NamesFixed
  BY DEF RoleInv
<1>1. PICK e \in Entities!RoleEntity :
        /\ e = [id |-> i, account |-> row.account, name |-> row.name, value |-> row.value,
                dirty |-> FALSE]
        /\ entity' = [entity EXCEPT ![o] = e]
  BY DEF Entities!NewEntity, Entities!RoleEntity
<1>2. e.id = i /\ e.name = row.name /\ e # Entities!NoEntity
  BY <1>1, ShapesDiffer
<1>3. entity'[o] = e /\ \A p \in Addr \ {o} : entity'[p] = entity[p]
  BY <1>0, <1>1 DEF Entities!TypeOK
<1>4. Entities!TypeOK'
  <2>1. /\ synced' = [synced EXCEPT ![o] = row.value]
        /\ raced' = raced \ {o} /\ ref' = [ref EXCEPT ![t] = o]
    BY DEF Entities!NewEntity
  <2>2. row.value \in Value
    OBVIOUS
  <2> QED
    BY <1>0, <1>1, <2>1, <2>2 DEF Entities!TypeOK
<1>5. i \in Entities!Rows'
  BY ShapesDiffer DEF Entities!Rows
<1>6. \A p \in Addr : entity'[p] # Entities!NoEntity =>
         /\ entity'[p].id <= nextId'
         /\ entity'[p].id \in Entities!Rows' => table'[entity'[p].id].name = entity'[p].name
  BY <1>2, <1>3
<1>7. \A p \in Addr \ {o} : entity[p] # Entities!NoEntity /\ entity[p].id = i
                           => entity[p].name = row.name
  BY <1>5
<1>8. ASSUME NEW p \in Addr, NEW q \in Addr, entity'[p] # Entities!NoEntity,
             entity'[q] # Entities!NoEntity, entity'[p].id = entity'[q].id
      PROVE  entity'[p].name = entity'[q].name
  <2>1. CASE p # o /\ q # o
    BY <1>0, <1>3, <1>8, <2>1 DEF NamesFixed
  <2>2. CASE p = o /\ q # o
    BY <1>2, <1>3, <1>7, <1>8, <2>2
  <2>3. CASE p # o /\ q = o
    BY <1>2, <1>3, <1>7, <1>8, <2>3
  <2> QED
    BY <2>1, <2>2, <2>3
<1>9. NamesFixed'
  BY <1>6, <1>8 DEF NamesFixed
<1> QED
  BY <1>4, <1>9

\* A row that was read becomes an entity with the name of the row.
LEMMA loadRoleStep ==
  ASSUME RoleInv, NEW t \in Thread, Entities!loadRole(t)
  PROVE  RoleInv'
<1>0. /\ Entities!TypeOK /\ NamesFixed /\ op[t].do = "select" /\ first' = first /\ first' \in BOOLEAN
      /\ UNCHANGED <<table, nextId, roleCache_, roleNameIndex_, managed, first, late>>
  BY DEF RoleInv, Entities!loadRole, Entities!Does, Entities!TypeOK, Entities!database, Entities!caches
<1>1. PICK i \in Entities!RoleId : i = op[t].id
  BY <1>0 DEF RoleInv, OpsSound
<1>2. PICK row \in Entities!Fetched(table[i]) :
        IF row = Entities!NoRow
          THEN Entities!Then(t, Entities!Idle) /\ UNCHANGED <<entity, ref, synced, raced>>
          ELSE /\ \E o \in Addr : Entities!NewEntity(t, o, i, row)
               /\ Entities!Then(t, [do |-> "cache", in |-> op[t].in])
  BY <1>1 DEF Entities!loadRole
<1>3. CASE row = Entities!NoRow
  <2>1. ref' = [ref EXCEPT ![t] = ref[t]]
    BY <1>0, <1>2, <1>3 DEF Entities!TypeOK
  <2>2. Quiet(t, Entities!Idle, ref[t])
    BY <1>0, <1>2, <1>3, <2>1 DEF Entities!Then, Quiet
  <2>3. Entities!Idle.do = "idle" /\ ref[t] \in Entities!Referenced
    BY ReferencedFacts DEF Entities!Idle
  <2> QED
    BY <1>0, <2>2, <2>3, QuietStep
<1>4. CASE row # Entities!NoRow
  <2>1. row = table[i] /\ i \in Entities!Rows
    BY <1>2, <1>4 DEF Entities!Fetched, Entities!Rows
  <2>2. row \in [account : Account, name : Name, value : Value]
    BY <1>0, <2>1, RowFields
  <2>3. PICK o \in Addr : Entities!NewEntity(t, o, i, row)
    BY <1>2, <1>4
  <2>4. Entities!Rows' = Entities!Rows
    BY <1>0 DEF Entities!Rows
  <2>5. Entities!TypeOK' /\ NamesFixed'
    <3>1. table' \in [Entities!RoleId -> Entities!Row] /\ nextId' \in 0..MaxRole
      BY <1>0 DEF Entities!TypeOK
    <3>2. /\ i <= nextId' /\ \A j \in Entities!Rows' : j <= nextId'
          /\ \A p \in Addr : entity[p] # Entities!NoEntity => entity[p].id <= nextId'
          /\ \A p \in Addr : entity[p] # Entities!NoEntity /\ entity[p].id \in Entities!Rows'
                       => table'[entity[p].id].name = entity[p].name
      BY <1>0, <2>1, <2>4 DEF NamesFixed
    <3> QED
      BY <1>0, <2>1, <2>2, <2>3, <3>1, <3>2, AllocateNames
  <2> QED
    BY <1>0, <1>2, <1>4, <2>1, <2>2, <2>3, <2>5, AllocateStep
<1> QED
  BY <1>3, <1>4

\* What an INSERT that succeeds does.
LEMMA InsertFacts ==
  ASSUME RoleInv, NEW a \in Account, NEW n \in Name, NEW i \in Entities!insertAndGetId(a, n),
         i > 0, Entities!Insert(i, a, n)
  PROVE  /\ i \in Entities!RoleId /\ nextId' = i /\ nextId' \in 0..MaxRole
         /\ table'[i] \in [account : Account, name : Name, value : Value]
         /\ table' \in [Entities!RoleId -> Entities!Row]
         /\ \A j \in Entities!RoleId \ {i} : table'[j] = table[j]
         /\ \A j \in Entities!Rows' : j <= nextId'
         /\ i > nextId
         /\ \A p \in Addr : entity[p] # Entities!NoEntity =>
              /\ entity[p].id <= nextId' /\ entity[p].id # i
              /\ entity[p].id \in Entities!Rows' => table'[entity[p].id].name = entity[p].name
<1>0. Entities!TypeOK /\ NamesFixed /\ MaxRole \in Nat /\ nextId \in 0..MaxRole
  BY RolesAssumption DEF RoleInv, Entities!TypeOK
<1>1. i = nextId + 1 /\ nextId < MaxRole
  BY <1>0 DEF Entities!insertAndGetId
<1>2. i \in Entities!RoleId /\ nextId' = i /\ nextId' \in 0..MaxRole /\ i > nextId
  BY <1>0, <1>1 DEF Entities!RoleId, Entities!Insert
<1>3. PICK r \in [account : Account, name : Name, value : Value] :
        table' = [table EXCEPT ![i] = r]
  BY DefaultIsValue DEF Entities!Insert
<1>4. /\ table'[i] = r /\ \A j \in Entities!RoleId \ {i} : table'[j] = table[j]
      /\ table' \in [Entities!RoleId -> Entities!Row]
  BY <1>0, <1>2, <1>3 DEF Entities!TypeOK, Entities!Row
<1>5. \A j \in Entities!Rows' : j = i \/ j \in Entities!Rows
  BY <1>4 DEF Entities!Rows
<1>6. \A j \in Entities!Rows' : j <= nextId'
  BY <1>0, <1>1, <1>2, <1>5 DEF NamesFixed, Entities!Rows, Entities!RoleId
<1>7. ASSUME NEW p \in Addr, entity[p] # Entities!NoEntity
      PROVE  /\ entity[p].id <= nextId' /\ entity[p].id # i
             /\ entity[p].id \in Entities!Rows' => table'[entity[p].id].name = entity[p].name
  <2>1. entity[p].id \in Entities!RoleId /\ entity[p].id \in Nat /\ entity[p].id <= nextId
    BY <1>0, <1>7, EntityFields DEF NamesFixed, Entities!RoleId
  <2>2. entity[p].id <= nextId' /\ entity[p].id # i
    BY <1>0, <1>1, <1>2, <2>1
  <2> QED
    BY <1>0, <1>4, <1>5, <1>7, <2>1, <2>2 DEF NamesFixed
<1> QED
  BY <1>2, <1>4, <1>6, <1>7

\* createRole() gives the new entity an id that none has had.
LEMMA createRoleStep ==
  ASSUME RoleInv, NEW t \in Thread, NEW a \in Account, NEW n \in Name, Entities!createRole(t, a, n)
  PROVE  RoleInv'
<1>1. PICK i \in Entities!insertAndGetId(a, n) :
        /\ i > 0 /\ Entities!Insert(i, a, n)
        /\ \E o \in Addr : Entities!NewEntity(t, o, i, table'[i])
        /\ Entities!Then(t, [do |-> "cache", in |-> "entities"])
        /\ UNCHANGED <<roleCache_, roleNameIndex_, managed, first, late>>
  BY DEF Entities!createRole, Entities!caches
<1>2. op[t].do = "idle"
  BY DEF Entities!createRole, Entities!Does
<1>3. /\ i \in Entities!RoleId /\ nextId' = i /\ nextId' \in 0..MaxRole
      /\ table'[i] \in [account : Account, name : Name, value : Value]
      /\ table' \in [Entities!RoleId -> Entities!Row]
      /\ \A j \in Entities!RoleId \ {i} : table'[j] = table[j]
      /\ \A j \in Entities!Rows' : j <= nextId'
      /\ \A p \in Addr : entity[p] # Entities!NoEntity =>
           /\ entity[p].id <= nextId' /\ entity[p].id # i
           /\ entity[p].id \in Entities!Rows' => table'[entity[p].id].name = entity[p].name
  BY <1>1, InsertFacts
<1>4. PICK o \in Addr : Entities!NewEntity(t, o, i, table'[i])
  BY <1>1
<1>5. PICK row \in [account : Account, name : Name, value : Value] : row = table'[i]
  BY <1>3
<1>6. i <= nextId'
  BY <1>3 DEF Entities!RoleId
<1>7. Entities!TypeOK' /\ NamesFixed'
  BY <1>1, <1>3, <1>4, <1>5, <1>6, AllocateNames
<1>8. \A j \in Entities!RoleId : table[j] # Entities!NoRow => table'[j] # Entities!NoRow
  BY <1>3, <1>5, ShapesDiffer
<1> QED
  BY <1>1, <1>2, <1>3, <1>4, <1>5, <1>7, <1>8, AllocateStep

\* An INSERT without an entity.
LEMMA insertRoleStep ==
  ASSUME RoleInv, NEW t \in Thread, NEW a \in Account, NEW n \in Name, Entities!insertRole(t, a, n)
  PROVE  RoleInv'
<1>0. /\ Entities!TypeOK /\ DOMAIN op = Thread /\ OpsSound /\ NoDangling /\ NamesFixed
      /\ CachedUnderId /\ NoSilentLoss /\ CacheCoherent
  BY DEF RoleInv
<1>1. PICK i \in Entities!insertAndGetId(a, n) : i > 0 /\ Entities!Insert(i, a, n)
  BY DEF Entities!insertRole
<1>2. UNCHANGED <<roleCache_, roleNameIndex_, managed, entity, first, op, ref, synced, raced, late>>
  BY DEF Entities!insertRole, Entities!caches, Entities!history
<1>3. /\ i \in Entities!RoleId /\ nextId' \in 0..MaxRole
      /\ table'[i] \in [account : Account, name : Name, value : Value]
      /\ table' \in [Entities!RoleId -> Entities!Row]
      /\ \A j \in Entities!RoleId \ {i} : table'[j] = table[j]
      /\ \A j \in Entities!Rows' : j <= nextId'
      /\ \A p \in Addr : entity[p] # Entities!NoEntity =>
           /\ entity[p].id <= nextId'
           /\ entity[p].id \in Entities!Rows' => table'[entity[p].id].name = entity[p].name
  BY <1>1, InsertFacts
<1>4. Entities!TypeOK' /\ DOMAIN op' = Thread
  BY <1>0, <1>2, <1>3 DEF Entities!TypeOK
<1>5. NamesFixed'
  BY <1>0, <1>2, <1>3 DEF NamesFixed
<1>6. OpsSound' /\ NoDangling' /\ NoSilentLoss' /\ CachedUnderId'
  BY <1>0, <1>2 DEF OpsSound, CachedUnderId, NoDangling, NoSilentLoss, Entities!NoSilentLoss, Entities!Referenced
<1>7. Entities!Rows \subseteq Entities!Rows'
  BY <1>3, ShapesDiffer DEF Entities!Rows
<1>8. CacheCoherent'
  BY <1>0, <1>2, <1>7 DEF CacheCoherent, Entities!CacheCoherent, Entities!ServesLiving,
     Entities!IndexSound, Entities!Does
<1> QED
  BY <1>4, <1>5, <1>6, <1>8 DEF RoleInv

\* cacheRole() replaces an entity only by one with the same id, hence of the
\* same name, so no other entry of the index is left without its entity.
LEMMA cacheRoleStep ==
  ASSUME RoleInv, NEW t \in Thread, Entities!cacheRole(t)
  PROVE  RoleInv'
<1>0. /\ Entities!TypeOK /\ DOMAIN op = Thread /\ OpsSound /\ NoDangling /\ NamesFixed
      /\ CachedUnderId /\ NoSilentLoss /\ CacheCoherent
  BY DEF RoleInv
<1>1. op[t].do = "cache" /\ ref[t] # Entities!Nil
  BY <1>0 DEF Entities!cacheRole, Entities!Does, OpsSound
<1>2. PICK o \in Addr : o = ref[t] /\ o \in Entities!Referenced /\ entity[o] # Entities!NoEntity
  BY <1>0, <1>1, ReferencedFacts, ReferencedIsAddr DEF NoDangling
<1>3. PICK i \in Entities!RoleId, n \in Name : i = entity[o].id /\ n = entity[o].name
  BY <1>0, <1>2, EntityFields
<1>4. /\ roleCache_' = [roleCache_ EXCEPT ![i] = o]
      /\ roleNameIndex_' = [roleNameIndex_ EXCEPT ![n] = i]
      /\ late' = IF i \in Entities!Rows THEN late ELSE late \union {i}
      /\ op' = [op EXCEPT ![t] = Entities!Idle]
      /\ UNCHANGED <<table, nextId, managed, entity, first, ref, synced, raced>>
  BY <1>2, <1>3 DEF Entities!cacheRole, Entities!Then, Entities!database
<1>5. Entities!TypeOK' /\ DOMAIN op' = Thread
  BY <1>0, <1>4 DEF Entities!TypeOK
<1>6. op'[t].do = "idle" /\ \A u \in Thread \ {t} : op'[u] = op[u]
  BY <1>0, <1>4 DEF Entities!Idle
<1>7. OpsSound'
  BY <1>0, <1>4, <1>6 DEF OpsSound
<1>8. /\ roleCache_'[i] = o /\ \A j \in Entities!RoleId \ {i} : roleCache_'[j] = roleCache_[j]
      /\ roleNameIndex_'[n] = i /\ \A m \in Name \ {n} : roleNameIndex_'[m] = roleNameIndex_[m]
  BY <1>0, <1>4 DEF Entities!TypeOK
<1>9. Entities!Referenced' \subseteq Entities!Referenced
  BY <1>2, <1>4, <1>8 DEF Entities!Referenced
<1>10. NoDangling' /\ NoSilentLoss'
  BY <1>0, <1>4, <1>9 DEF NoDangling, NoSilentLoss, Entities!NoSilentLoss
<1>11. NamesFixed'
  BY <1>0, <1>4 DEF NamesFixed, Entities!Rows
<1>12. ASSUME NEW j \in Entities!RoleId PROVE Entities!ServesLiving(j)'
  <2>1. Entities!ServesLiving(j) /\ Entities!Rows' = Entities!Rows
    BY <1>0, <1>4 DEF CacheCoherent, Entities!CacheCoherent, Entities!Rows
  <2>2. CASE j = i
    BY <1>4, <2>1, <2>2 DEF Entities!ServesLiving
  <2>3. CASE j # i
    <3>1. \A u \in Thread : op[u].do = "uncache" => op'[u] = op[u]
      BY <1>1, <1>6
    <3> QED
      BY <1>4, <1>8, <2>1, <2>3, <3>1 DEF Entities!ServesLiving, Entities!Does
  <2> QED
    BY <2>2, <2>3
<1>13. ASSUME NEW m \in Name PROVE Entities!IndexSound(m)'
  <2>1. Entities!IndexSound(m)
    BY <1>0 DEF CacheCoherent, Entities!CacheCoherent
  <2>2. CASE m = n
    BY <1>2, <1>3, <1>4, <1>8, <2>2, AddrIsNotNil DEF Entities!IndexSound
  <2>3. CASE m # n /\ roleNameIndex_[m] # Entities!Nil
    <3>1. PICK j \in Entities!RoleId : j = roleNameIndex_[m]
      BY <1>0, <2>3 DEF Entities!TypeOK
    <3>2. PICK p \in Addr : p = roleCache_[j] /\ entity[p].name = m /\ p # Entities!Nil
      BY <1>0, <2>1, <2>3, <3>1 DEF Entities!IndexSound, Entities!TypeOK
    <3>3. p \in Entities!Referenced /\ entity[p] # Entities!NoEntity
      BY <1>0, <3>2, ReferencedFacts DEF NoDangling
    <3>4. j # i
      <4>1. SUFFICES ASSUME j = i PROVE FALSE
        OBVIOUS
      <4>2. entity[p].id = j
        BY <1>0, <3>1, <3>2 DEF CachedUnderId
      <4> QED
        BY <1>0, <1>2, <1>3, <2>3, <3>2, <3>3, <4>1, <4>2 DEF NamesFixed
    <3> QED
      BY <1>4, <1>8, <2>3, <3>1, <3>2, <3>4 DEF Entities!IndexSound
  <2>4. CASE m # n /\ roleNameIndex_[m] = Entities!Nil
    BY <1>8, <2>4 DEF Entities!IndexSound
  <2> QED
    BY <2>2, <2>3, <2>4
<1>14. CachedUnderId'
  BY <1>0, <1>3, <1>4, <1>8 DEF CachedUnderId
<1> QED
  BY <1>5, <1>7, <1>10, <1>11, <1>12, <1>13, <1>14 DEF RoleInv, CacheCoherent, Entities!CacheCoherent

\* RoleManager's cache holds no more entities than are known already.
LEMMA manageRoleStep ==
  ASSUME RoleInv, NEW t \in Thread, Entities!manageRole(t)
  PROVE  RoleInv'
<1>0. /\ Entities!TypeOK /\ DOMAIN op = Thread /\ OpsSound /\ NoDangling /\ NamesFixed
      /\ CachedUnderId /\ NoSilentLoss /\ CacheCoherent
  BY DEF RoleInv
<1>1. /\ op[t].do = "cache"
      /\ managed' = [managed EXCEPT ![entity[ref[t]].id] = ref[t]]
      /\ op' = [op EXCEPT ![t] = Entities!Idle]
      /\ UNCHANGED <<table, nextId, roleCache_, roleNameIndex_, entity, first, ref, synced, raced, late>>
  BY DEF Entities!manageRole, Entities!Does, Entities!Then, Entities!database, Entities!history
<1>2. Entities!TypeOK' /\ DOMAIN op' = Thread
  BY <1>0, <1>1 DEF Entities!TypeOK
<1>3. op'[t].do = "idle" /\ \A u \in Thread \ {t} : op'[u] = op[u]
  BY <1>0, <1>1 DEF Entities!Idle
<1>4. OpsSound'
  BY <1>0, <1>1, <1>3 DEF OpsSound
<1>5. \A i \in Entities!RoleId : managed'[i] = managed[i] \/ managed'[i] = ref[t]
  BY <1>0, <1>1 DEF Entities!TypeOK
<1>6. Entities!Referenced' \subseteq Entities!Referenced
  BY <1>1, <1>5 DEF Entities!Referenced
<1>7. NoDangling' /\ NoSilentLoss'
  BY <1>0, <1>1, <1>6 DEF NoDangling, NoSilentLoss, Entities!NoSilentLoss
<1>8. NamesFixed' /\ CachedUnderId'
  BY <1>0, <1>1 DEF NamesFixed, CachedUnderId, Entities!Rows
<1>9. CacheCoherent'
  BY <1>0, <1>1, <1>3 DEF CacheCoherent, Entities!CacheCoherent, Entities!ServesLiving,
     Entities!IndexSound, Entities!Rows, Entities!Does
<1> QED
  BY <1>2, <1>4, <1>7, <1>8, <1>9 DEF RoleInv

\* uncacheRole() drops the name together with the entity it led to.
LEMMA uncacheRoleStep ==
  ASSUME RoleInv, NEW t \in Thread, Entities!uncacheRole(t)
  PROVE  RoleInv'
<1>0. /\ Entities!TypeOK /\ DOMAIN op = Thread /\ OpsSound /\ NoDangling /\ NamesFixed
      /\ CachedUnderId /\ NoSilentLoss /\ CacheCoherent
  BY DEF RoleInv
<1>1. PICK i \in Entities!RoleId : i = op[t].id
  BY <1>0 DEF Entities!uncacheRole, Entities!Does, OpsSound
<1>2. /\ op' = [op EXCEPT ![t] = Entities!Idle]
      /\ UNCHANGED <<table, nextId, managed, entity, first, ref, synced, raced, late>>
  BY DEF Entities!uncacheRole, Entities!Then, Entities!database, Entities!history
<1>3. op'[t].do = "idle" /\ \A u \in Thread \ {t} : op'[u] = op[u]
  BY <1>0, <1>2 DEF Entities!Idle
<1>4. OpsSound'
  BY <1>0, <1>2, <1>3 DEF OpsSound
<1>5. NamesFixed' /\ DOMAIN op' = Thread
  BY <1>0, <1>2 DEF NamesFixed, Entities!Rows
<1>6. \/ roleCache_[i] = Entities!Nil /\ UNCHANGED <<roleCache_, roleNameIndex_>>
      \/ /\ roleCache_[i] # Entities!Nil
         /\ roleNameIndex_' = [roleNameIndex_ EXCEPT ![entity[roleCache_[i]].name] = Entities!Nil]
         /\ roleCache_' = [roleCache_ EXCEPT ![i] = Entities!Nil]
  BY <1>1 DEF Entities!uncacheRole
<1>7. Entities!TypeOK'
  BY <1>0, <1>2, <1>6 DEF Entities!TypeOK
<1>8. /\ roleCache_'[i] = Entities!Nil
      /\ \A j \in Entities!RoleId \ {i} : roleCache_'[j] = roleCache_[j]
  BY <1>0, <1>6 DEF Entities!TypeOK
<1>9. Entities!Referenced' \subseteq Entities!Referenced \union {Entities!Nil}
  BY <1>2, <1>8 DEF Entities!Referenced
<1>10. NoDangling' /\ NoSilentLoss' /\ CachedUnderId'
  BY <1>0, <1>2, <1>8, <1>9 DEF NoDangling, NoSilentLoss, Entities!NoSilentLoss, CachedUnderId
<1>11. ASSUME NEW j \in Entities!RoleId PROVE Entities!ServesLiving(j)'
  <2>1. Entities!ServesLiving(j) /\ Entities!Rows' = Entities!Rows
    BY <1>0, <1>2 DEF CacheCoherent, Entities!CacheCoherent, Entities!Rows
  <2>2. CASE j = i
    BY <1>8, <2>2 DEF Entities!ServesLiving
  <2>3. CASE j # i
    <3>1. \A u \in Thread : op[u].do = "uncache" /\ op[u].id = j => op'[u] = op[u]
      BY <1>1, <1>3, <2>3
    <3> QED
      BY <1>2, <1>8, <2>1, <2>3, <3>1 DEF Entities!ServesLiving, Entities!Does
  <2> QED
    BY <2>2, <2>3
<1>12. ASSUME NEW m \in Name PROVE Entities!IndexSound(m)'
  <2>1. Entities!IndexSound(m)
    BY <1>0 DEF CacheCoherent, Entities!CacheCoherent
  <2>2. CASE roleNameIndex_'[m] = Entities!Nil
    BY <2>2 DEF Entities!IndexSound
  <2>3. CASE roleNameIndex_'[m] # Entities!Nil
    <3>1. roleNameIndex_'[m] = roleNameIndex_[m]
      BY <1>0, <1>6, <2>3 DEF Entities!TypeOK
    <3>2. PICK j \in Entities!RoleId : j = roleNameIndex_[m]
      BY <1>0, <2>3, <3>1 DEF Entities!TypeOK
    <3>3. roleCache_[j] # Entities!Nil /\ entity[roleCache_[j]].name = m
      BY <2>1, <2>3, <3>1, <3>2 DEF Entities!IndexSound
    <3>4. j # i
      BY <1>0, <1>6, <2>3, <3>2, <3>3 DEF Entities!TypeOK
    <3> QED
      BY <1>2, <1>8, <3>1, <3>2, <3>3, <3>4 DEF Entities!IndexSound
  <2> QED
    BY <2>2, <2>3
<1> QED
  BY <1>4, <1>5, <1>7, <1>10, <1>11, <1>12 DEF RoleInv, CacheCoherent, Entities!CacheCoherent

\* After a DELETE the thread is about to drop the role from the cache.
LEMMA deleteRoleStep ==
  ASSUME RoleInv, NEW t \in Thread, NEW i \in Entities!RoleId, Entities!deleteRole(t, i)
  PROVE  RoleInv'
<1>0. /\ Entities!TypeOK /\ DOMAIN op = Thread /\ OpsSound /\ NoDangling /\ NamesFixed
      /\ CachedUnderId /\ NoSilentLoss /\ CacheCoherent
  BY DEF RoleInv
<1>1. PICK n : n = [do |-> "uncache", id |-> i]
  OBVIOUS
<1>2. /\ n.do = "uncache" /\ n.id = i /\ op[t].do = "idle" /\ op' = [op EXCEPT ![t] = n]
      /\ table' = [table EXCEPT ![i] = Entities!NoRow]
      /\ UNCHANGED <<nextId, roleCache_, roleNameIndex_, managed, entity, first, ref, synced, raced, late>>
  BY <1>1 DEF Entities!deleteRole, Entities!Does, Entities!Then, Entities!caches, Entities!history
<1>3. op'[t] = n /\ \A u \in Thread \ {t} : op'[u] = op[u]
  BY <1>0, <1>2
<1>4. Entities!TypeOK' /\ DOMAIN op' = Thread
  BY <1>0, <1>2 DEF Entities!TypeOK, Entities!Row
<1>5. OpsSound'
  BY <1>0, <1>2, <1>3 DEF OpsSound
<1>6. NoDangling' /\ NoSilentLoss' /\ CachedUnderId'
  BY <1>0, <1>2 DEF NoDangling, NoSilentLoss, Entities!NoSilentLoss, CachedUnderId, Entities!Referenced
<1>7. /\ Entities!Rows' = Entities!Rows \ {i}
      /\ \A j \in Entities!RoleId \ {i} : table'[j] = table[j]
  BY <1>0, <1>2 DEF Entities!Rows, Entities!TypeOK
<1>8. NamesFixed'
  <2>1. \A j \in Entities!Rows' : j \in Entities!Rows /\ table'[j] = table[j]
    BY <1>7 DEF Entities!Rows
  <2> QED
    BY <1>0, <1>2, <2>1 DEF NamesFixed
<1>9. CacheCoherent'
  <2>1. ASSUME NEW j \in Entities!RoleId PROVE Entities!ServesLiving(j)'
    <3>1. Entities!ServesLiving(j)
      BY <1>0 DEF CacheCoherent, Entities!CacheCoherent
    <3>2. CASE j = i
      BY <1>2, <1>3, <3>2 DEF Entities!ServesLiving, Entities!Does
    <3>3. CASE j # i
      <4>1. \A u \in Thread : op[u].do = "uncache" => op'[u] = op[u]
        BY <1>2, <1>3
      <4> QED
        BY <1>2, <1>7, <3>1, <3>3, <4>1 DEF Entities!ServesLiving, Entities!Does
    <3> QED
      BY <3>2, <3>3
  <2>2. ASSUME NEW m \in Name PROVE Entities!IndexSound(m)'
    BY <1>0, <1>2 DEF CacheCoherent, Entities!CacheCoherent, Entities!IndexSound
  <2> QED
    BY <2>1, <2>2 DEF CacheCoherent, Entities!CacheCoherent
<1> QED
  BY <1>4, <1>5, <1>6, <1>8, <1>9 DEF RoleInv

\* A step that changes other columns than id and name, of rows and of entities.
LEMMA SameNames ==
  ASSUME RoleInv, UNCHANGED <<nextId, roleCache_, roleNameIndex_, managed, ref, late>>,
         Entities!Rows' = Entities!Rows,
         \A i \in Entities!Rows : table'[i].name = table[i].name,
         \A o \in Addr : entity[o] # Entities!NoEntity =>
           /\ entity'[o] # Entities!NoEntity
           /\ entity'[o].id = entity[o].id /\ entity'[o].name = entity[o].name,
         \A o \in Addr : entity[o] = Entities!NoEntity => entity'[o] = Entities!NoEntity,
         \A t \in Thread : op[t].do = "uncache" => op'[t] = op[t]
  PROVE  NamesFixed' /\ NoDangling' /\ CachedUnderId' /\ CacheCoherent'
<1>0. /\ Entities!TypeOK /\ DOMAIN op = Thread /\ OpsSound /\ NoDangling /\ NamesFixed
      /\ CachedUnderId /\ NoSilentLoss /\ CacheCoherent
  BY DEF RoleInv
<1>1. NamesFixed'
  <2>1. \A o \in Addr : entity'[o] # Entities!NoEntity => entity[o] # Entities!NoEntity
    OBVIOUS
  <2> QED
    BY <1>0, <2>1 DEF NamesFixed
<1>2. Entities!Referenced' = Entities!Referenced /\ Entities!Referenced \subseteq Addr \union {Entities!Nil}
  BY <1>0, ReferencedIsAddr DEF Entities!Referenced
<1>3. NoDangling'
  BY <1>0, <1>2 DEF NoDangling
<1>4. \A i \in Entities!RoleId : roleCache_[i] # Entities!Nil =>
        roleCache_[i] \in Addr /\ entity[roleCache_[i]] # Entities!NoEntity
  BY <1>0, ReferencedFacts DEF NoDangling, Entities!TypeOK
<1>5. CachedUnderId'
  BY <1>0, <1>4 DEF CachedUnderId
<1>6. ASSUME NEW j \in Entities!RoleId PROVE Entities!ServesLiving(j)'
  <2>1. Entities!ServesLiving(j)
    BY <1>0 DEF CacheCoherent, Entities!CacheCoherent
  <2> QED
    BY <2>1 DEF Entities!ServesLiving, Entities!Does
<1>7. ASSUME NEW m \in Name PROVE Entities!IndexSound(m)'
  <2>1. Entities!IndexSound(m) /\ (roleNameIndex_[m] # Entities!Nil => roleNameIndex_[m] \in Entities!RoleId)
    BY <1>0 DEF CacheCoherent, Entities!CacheCoherent, Entities!TypeOK
  <2> QED
    BY <1>4, <2>1 DEF Entities!IndexSound
<1> QED
  BY <1>1, <1>3, <1>5, <1>6, <1>7 DEF CacheCoherent, Entities!CacheCoherent

\* A setter leaves the other fields of an entity.
LEMMA SetterKeeps ==
  ASSUME NEW e \in Entities!RoleEntity, NEW v \in Value, NEW d \in BOOLEAN
  PROVE  /\ [e EXCEPT !.dirty = d] \in Entities!RoleEntity
         /\ [e EXCEPT !.dirty = d].id = e.id /\ [e EXCEPT !.dirty = d].name = e.name
         /\ [e EXCEPT !.dirty = d].value = e.value /\ [e EXCEPT !.dirty = d].dirty = d
         /\ [e EXCEPT !.value = v] \in Entities!RoleEntity
         /\ [e EXCEPT !.value = v].id = e.id /\ [e EXCEPT !.value = v].name = e.name
<1> USE DEF Entities!RoleEntity
<1>1. [e EXCEPT !.dirty = d] \in Entities!RoleEntity
  OBVIOUS
<1>2. /\ [e EXCEPT !.dirty = d].id = e.id /\ [e EXCEPT !.dirty = d].name = e.name
      /\ [e EXCEPT !.dirty = d].value = e.value
  OBVIOUS
<1>3. [e EXCEPT !.dirty = d].dirty = d
  OBVIOUS
<1>4. [e EXCEPT !.value = v] \in Entities!RoleEntity
  OBVIOUS
<1>5. [e EXCEPT !.value = v].id = e.id /\ [e EXCEPT !.value = v].name = e.name
  OBVIOUS
<1> QED
  BY <1>1, <1>2, <1>3, <1>4, <1>5

\* A setter makes the entity dirty, and races with a save that is under way.
LEMMA setValueStep ==
  ASSUME RoleInv, NEW t \in Thread, NEW v \in Value, Entities!setValue(t, v)
  PROVE  RoleInv'
<1>0. /\ Entities!TypeOK /\ DOMAIN op = Thread /\ OpsSound /\ NoDangling /\ NamesFixed
      /\ CachedUnderId /\ NoSilentLoss /\ CacheCoherent
  BY DEF RoleInv
<1>1. PICK o \in Addr : o = ref[t] /\ entity[o] # Entities!NoEntity
  BY <1>0, ReferencedFacts, ReferencedIsAddr DEF Entities!setValue, NoDangling
<1>2. entity[o] \in Entities!RoleEntity
  BY <1>0, <1>1, EntityFields
<1>3. PICK e \in Entities!RoleEntity :
        /\ e.id = entity[o].id /\ e.name = entity[o].name /\ e.dirty = TRUE
        /\ entity' = [entity EXCEPT ![o] = e]
  <2>1. PICK f \in Entities!RoleEntity : f = [entity[o] EXCEPT !.value = v]
    BY <1>2, SetterKeeps
  <2>2. f.id = entity[o].id /\ f.name = entity[o].name
    BY <1>2, <2>1, SetterKeeps
  <2>3. PICK e \in Entities!RoleEntity : e = [f EXCEPT !.dirty = TRUE]
    BY SetterKeeps
  <2>4. e.id = f.id /\ e.name = f.name /\ e.dirty = TRUE
    BY <2>3, SetterKeeps
  <2>5. entity' = [entity EXCEPT ![o] = [[entity[o] EXCEPT !.value = v] EXCEPT !.dirty = TRUE]]
    BY <1>0, <1>1, <1>2 DEF Entities!setValue, Entities!TypeOK
  <2> QED
    BY <2>1, <2>2, <2>3, <2>4, <2>5
<1>4. /\ entity'[o] = e /\ e.id = entity[o].id /\ e.name = entity[o].name /\ e.dirty
      /\ e # Entities!NoEntity
      /\ \A p \in Addr \ {o} : entity'[p] = entity[p]
  BY <1>0, <1>3, ShapesDiffer DEF Entities!TypeOK
<1>5. /\ UNCHANGED <<table, nextId, roleCache_, roleNameIndex_, managed, first, op, ref, synced, late>>
      /\ raced' = IF \E u \in Thread : op[u].do = "update" /\ ref[u] = o THEN raced \union {o} ELSE raced
  BY <1>1 DEF Entities!setValue, Entities!Does, Entities!database, Entities!caches
<1>6. Entities!TypeOK' /\ DOMAIN op' = Thread
  BY <1>0, <1>3, <1>5 DEF Entities!TypeOK
<1>7. OpsSound'
  <2>1. ASSUME NEW u \in Thread, op[u].do = "update"
        PROVE  op[u].value = entity'[ref[u]].value \/ ref[u] \in raced'
    <3>1. CASE ref[u] = o
      BY <1>5, <2>1, <3>1
    <3>2. CASE ref[u] # o
      <4>1. ref[u] \in Addr
        BY <1>0, <2>1 DEF OpsSound, Entities!TypeOK
      <4> QED
        BY <1>0, <1>4, <1>5, <2>1, <3>2, <4>1 DEF OpsSound
    <3> QED
      BY <3>1, <3>2
  <2> QED
    BY <1>0, <1>5, <2>1 DEF OpsSound
<1>8. NamesFixed' /\ NoDangling' /\ CachedUnderId' /\ CacheCoherent'
  <2>1. Entities!Rows' = Entities!Rows
    BY <1>5 DEF Entities!Rows
  <2> QED
    BY <1>1, <1>4, <1>5, <2>1, SameNames
<1>9. NoSilentLoss'
  <2>1. Entities!Referenced' = Entities!Referenced /\ Entities!Referenced \subseteq Addr \union {Entities!Nil}
    BY <1>0, <1>5, ReferencedIsAddr DEF Entities!Referenced
  <2>2. ASSUME NEW p \in Entities!Referenced \ {Entities!Nil}
        PROVE  entity'[p].dirty \/ entity'[p].value = synced'[p] \/ p \in raced'
    <3>1. CASE p = o
      BY <1>4, <3>1
    <3>2. CASE p # o
      <4>1. entity'[p] = entity[p]
        BY <1>4, <2>1, <3>2
      <4>2. entity[p].dirty \/ entity[p].value = synced[p] \/ p \in raced
        BY <1>0, <2>2 DEF NoSilentLoss, Entities!NoSilentLoss
      <4> QED
        BY <1>5, <4>1, <4>2
    <3> QED
      BY <3>1, <3>2
  <2> QED
    BY <2>1, <2>2 DEF NoSilentLoss, Entities!NoSilentLoss
<1> QED
  BY <1>6, <1>7, <1>8, <1>9 DEF RoleInv

\* clearDirty() follows an UPDATE that stored the value the entity had.
LEMMA updateStep ==
  ASSUME RoleInv, NEW t \in Thread, Entities!update(t)
  PROVE  RoleInv'
<1>0. /\ Entities!TypeOK /\ DOMAIN op = Thread /\ OpsSound /\ NoDangling /\ NamesFixed
      /\ CachedUnderId /\ NoSilentLoss /\ CacheCoherent
  BY DEF RoleInv
<1>1. op[t].do = "update" /\ ref[t] # Entities!Nil
  BY <1>0 DEF Entities!update, Entities!Does, OpsSound
<1>2. PICK o \in Addr : o = ref[t] /\ entity[o] # Entities!NoEntity
  BY <1>0, <1>1, ReferencedFacts, ReferencedIsAddr DEF NoDangling
<1>3. entity[o] \in Entities!RoleEntity /\ entity[o].id \in Entities!RoleId
  BY <1>0, <1>2, EntityFields
<1>4. PICK v \in Value, i \in Entities!RoleId :
        v = op[t].value /\ i = entity[o].id /\ (v = entity[o].value \/ o \in raced)
  BY <1>0, <1>1, <1>2, <1>3 DEF OpsSound
<1>5. UNCHANGED <<nextId, roleCache_, roleNameIndex_, managed, first, ref, raced, late>>
  BY DEF Entities!update, Entities!caches
<1>6. CASE Entities!Then(t, Entities!Idle) /\ UNCHANGED <<table, entity, synced>>
  <2>1. ref' = [ref EXCEPT ![t] = ref[t]]
    BY <1>0, <1>5 DEF Entities!TypeOK
  <2>2. Quiet(t, Entities!Idle, ref[t])
    BY <1>5, <1>6, <2>1 DEF Quiet, Entities!Then
  <2>3. Entities!Idle.do = "idle" /\ ref[t] \in Entities!Referenced /\ first' \in BOOLEAN
    BY <1>0, <1>5, ReferencedFacts DEF Entities!Idle, Entities!TypeOK
  <2> QED
    BY <1>1, <2>2, <2>3, QuietStep
<1>7. CASE /\ i \in Entities!Rows
           /\ table' = [table EXCEPT ![i].value = v]
           /\ entity' = [entity EXCEPT ![o].dirty = FALSE]
           /\ synced' = [synced EXCEPT ![o] = v]
           /\ Entities!Then(t, Entities!AfterSave(op[t].in))
  <2>1. PICK e \in Entities!RoleEntity :
          /\ e.id = entity[o].id /\ e.name = entity[o].name /\ e.value = entity[o].value
          /\ entity' = [entity EXCEPT ![o] = e]
    <3>1. PICK e \in Entities!RoleEntity : e = [entity[o] EXCEPT !.dirty = FALSE]
      BY <1>3, SetterKeeps
    <3>2. e.id = entity[o].id /\ e.name = entity[o].name /\ e.value = entity[o].value
      BY <1>3, <3>1, SetterKeeps
    <3> QED
      BY <1>7, <3>1, <3>2
  <2>2. /\ entity'[o] = e /\ e.id = entity[o].id /\ e.name = entity[o].name
        /\ e.value = entity[o].value /\ e # Entities!NoEntity /\ synced'[o] = v
        /\ \A p \in Addr \ {o} : entity'[p] = entity[p] /\ synced'[p] = synced[p]
    BY <1>0, <1>7, <2>1, ShapesDiffer DEF Entities!TypeOK
  <2>3. PICK r \in [account : Account, name : Name, value : Value] :
          r.name = table[i].name /\ table' = [table EXCEPT ![i] = r]
    <3>1. table[i] \in [account : Account, name : Name, value : Value]
      BY <1>0, <1>7, RowFields
    <3>2. PICK r : r = [table[i] EXCEPT !.value = v]
      OBVIOUS
    <3>3. r \in [account : Account, name : Name, value : Value] /\ r.name = table[i].name
      BY <3>1, <3>2
    <3> QED
      BY <1>7, <3>2, <3>3
  <2>4. /\ table'[i] = r /\ \A j \in Entities!RoleId \ {i} : table'[j] = table[j]
        /\ table' \in [Entities!RoleId -> Entities!Row]
    BY <1>0, <2>3 DEF Entities!TypeOK, Entities!Row
  <2>5. Entities!Rows' = Entities!Rows /\ \A j \in Entities!Rows : table'[j].name = table[j].name
    BY <1>7, <2>3, <2>4, ShapesDiffer DEF Entities!Rows
  <2> DEFINE n == Entities!AfterSave(op[t].in)
  <2>6. n.do \in {"cache", "idle"} /\ op' = [op EXCEPT ![t] = n]
    <3>1. Entities!AfterSave(op[t].in).do \in {"cache", "idle"}
      BY DEF Entities!AfterSave, Entities!Idle
    <3>2. op' = [op EXCEPT ![t] = Entities!AfterSave(op[t].in)]
      BY <1>7, Zenon DEF Entities!Then
    <3> QED
      BY <3>1, <3>2
  <2> HIDE DEF n
  <2>7. op'[t] = n /\ \A u \in Thread \ {t} : op'[u] = op[u]
    BY <1>0, <2>6
  <2>8. Entities!TypeOK' /\ DOMAIN op' = Thread
    <3>1. entity' \in [Addr -> Entities!RoleEntity \union {Entities!NoEntity}]
      BY <1>0, <2>1 DEF Entities!TypeOK
    <3>2. synced' \in [Addr -> Value]
      BY <1>0, <1>7 DEF Entities!TypeOK
    <3>3. DOMAIN op' = Thread
      BY <1>0, <2>6
    <3> QED
      BY <1>0, <1>5, <2>4, <3>1, <3>2, <3>3 DEF Entities!TypeOK
  <2>9. \A u \in Thread : op[u].do = "uncache" => op'[u] = op[u]
    BY <1>1, <2>7
  <2>10. NamesFixed' /\ NoDangling' /\ CachedUnderId' /\ CacheCoherent'
    <3>1. \A p \in Addr : entity[p] # Entities!NoEntity =>
           /\ entity'[p] # Entities!NoEntity
           /\ entity'[p].id = entity[p].id /\ entity'[p].name = entity[p].name
      BY <2>2
    <3>2. \A p \in Addr : entity[p] = Entities!NoEntity => entity'[p] = Entities!NoEntity
      BY <1>2, <2>2
    <3> QED
      BY <1>5, <2>5, <2>9, <3>1, <3>2, SameNames
  <2>11. OpsSound'
    <3>1. \A p \in Addr : entity'[p].value = entity[p].value
      BY <2>2
    <3>2. ASSUME NEW u \in Thread \ {t}, op[u].do = "update"
          PROVE  entity'[ref[u]].value = entity[ref[u]].value
      BY <1>0, <3>1, <3>2 DEF OpsSound, Entities!TypeOK
    <3> QED
      BY <1>0, <1>1, <1>5, <2>6, <2>7, <3>2 DEF OpsSound
  <2>12. NoSilentLoss'
    <3>1. Entities!Referenced' = Entities!Referenced
          /\ Entities!Referenced \subseteq Addr \union {Entities!Nil}
      BY <1>0, <1>5, ReferencedIsAddr DEF Entities!Referenced
    <3>2. ASSUME NEW p \in Entities!Referenced \ {Entities!Nil}
          PROVE  entity'[p].dirty \/ entity'[p].value = synced'[p] \/ p \in raced'
      <4>1. CASE p = o
        BY <1>4, <1>5, <2>2, <4>1
      <4>2. CASE p # o
        <5>1. entity'[p] = entity[p] /\ synced'[p] = synced[p]
          BY <2>2, <3>1, <4>2
        <5>2. entity[p].dirty \/ entity[p].value = synced[p] \/ p \in raced
          BY <1>0, <3>2 DEF NoSilentLoss, Entities!NoSilentLoss
        <5> QED
          BY <1>5, <5>1, <5>2
      <4> QED
        BY <4>1, <4>2
    <3> QED
      BY <3>1, <3>2 DEF NoSilentLoss, Entities!NoSilentLoss
  <2> QED
    BY <2>8, <2>10, <2>11, <2>12 DEF RoleInv
<1> QED
  <2>1. PICK affected \in (IF op[t].wellFormed THEN Entities!executeUpdate(i, v) ELSE {-1}) :
          IF affected > 0
             THEN /\ table' = [table EXCEPT ![i].value = v]
                  /\ entity' = [entity EXCEPT ![o].dirty = FALSE]
                  /\ synced' = [synced EXCEPT ![o] = v]
                  /\ Entities!Then(t, Entities!AfterSave(op[t].in))
             ELSE Entities!Then(t, Entities!Idle) /\ UNCHANGED <<table, entity, synced>>
    BY <1>2, <1>4 DEF Entities!update
  <2>2. affected > 0 => i \in Entities!Rows
    BY <2>1 DEF Entities!executeUpdate
  <2> QED
    BY <1>6, <1>7, <2>1, <2>2

\* A process that starts: empty caches, no entity, no request.
LEMMA FreshProcess ==
  ASSUME table \in [Entities!RoleId -> Entities!Row], nextId \in 0..MaxRole,
         \A i \in Entities!Rows : i <= nextId,
         entity = [o \in Addr |-> Entities!NoEntity],
         roleCache_ = [i \in Entities!RoleId |-> Entities!Nil],
         managed = [i \in Entities!RoleId |-> Entities!Nil],
         roleNameIndex_ = [n \in Name |-> Entities!Nil],
         first = TRUE, op = [t \in Thread |-> Entities!Idle],
         ref = [t \in Thread |-> Entities!Nil],
         synced = [o \in Addr |-> Entities!Default], raced = {}, late = {}
  PROVE  RoleInv
<1>1. Entities!TypeOK
  BY DefaultIsValue DEF Entities!TypeOK
<1>2. DOMAIN op = Thread /\ \A t \in Thread : op[t].do = "idle"
  BY DEF Entities!Idle
<1>3. OpsSound
  BY <1>2 DEF OpsSound
<1>4. \A i \in Entities!RoleId : roleCache_[i] = Entities!Nil /\ managed[i] = Entities!Nil
  OBVIOUS
<1>5. Entities!Referenced \subseteq {Entities!Nil}
  BY <1>4 DEF Entities!Referenced
<1>6. NoDangling /\ NoSilentLoss
  BY <1>5 DEF NoDangling, NoSilentLoss, Entities!NoSilentLoss
<1>7. \A o \in Addr : entity[o] = Entities!NoEntity
  OBVIOUS
<1>8. NamesFixed /\ CachedUnderId
  BY <1>4, <1>7 DEF NamesFixed, CachedUnderId
<1>9. CacheCoherent
  BY <1>4 DEF CacheCoherent, Entities!CacheCoherent, Entities!ServesLiving, Entities!IndexSound
<1> QED
  BY <1>1, <1>2, <1>3, <1>6, <1>8, <1>9 DEF RoleInv

\* The first process starts with an empty table.
LEMMA RoleInvInit == ASSUME Entities!Init PROVE RoleInv
<1>1. table \in [Entities!RoleId -> Entities!Row] /\ nextId \in 0..MaxRole
  BY RolesAssumption DEF Entities!Init, Entities!Row
<1>2. Entities!Rows = {}
  BY DEF Entities!Init, Entities!Rows
<1> QED
  BY <1>1, <1>2, FreshProcess DEF Entities!Init

\* The next process starts with the table and nothing else.
LEMMA CrashStep == ASSUME RoleInv, Entities!Crash PROVE RoleInv'
<1>1. UNCHANGED <<table, nextId>> /\ Entities!TypeOK /\ NamesFixed
  BY DEF RoleInv, Entities!Crash, Entities!database
<1>2. table' \in [Entities!RoleId -> Entities!Row] /\ nextId' \in 0..MaxRole
  BY <1>1 DEF Entities!TypeOK
<1>3. \A i \in Entities!Rows' : i <= nextId'
  BY <1>1 DEF NamesFixed, Entities!Rows
<1>4. Entities!TypeOK'
  BY <1>2, DefaultIsValue DEF Entities!Crash, Entities!TypeOK
<1>5. DOMAIN op' = Thread /\ \A t \in Thread : op'[t].do = "idle"
  BY DEF Entities!Crash, Entities!Idle
<1>6. OpsSound'
  BY <1>5 DEF OpsSound
<1>7. \A i \in Entities!RoleId : roleCache_'[i] = Entities!Nil /\ managed'[i] = Entities!Nil
  BY DEF Entities!Crash
<1>8. Entities!Referenced' \subseteq {Entities!Nil}
  BY <1>7 DEF Entities!Referenced, Entities!Crash
<1>9. NoDangling' /\ NoSilentLoss'
  BY <1>8 DEF NoDangling, NoSilentLoss, Entities!NoSilentLoss
<1>10. \A o \in Addr : entity'[o] = Entities!NoEntity
  BY DEF Entities!Crash
<1>11. NamesFixed' /\ CachedUnderId'
  BY <1>3, <1>7, <1>10 DEF NamesFixed, CachedUnderId
<1>12. CacheCoherent'
  BY <1>7 DEF Entities!Crash, CacheCoherent, Entities!CacheCoherent, Entities!ServesLiving, Entities!IndexSound
<1> QED
  BY <1>4, <1>5, <1>6, <1>9, <1>11, <1>12 DEF RoleInv

\* Every step keeps the invariant of the roles.
LEMMA RoleInvStep == RoleInv /\ [Entities!Next]_(Entities!vars) => RoleInv'
<1> SUFFICES ASSUME RoleInv, [Entities!Next]_(Entities!vars) PROVE RoleInv'
  OBVIOUS
<1>1. CASE UNCHANGED Entities!vars
  <2>1. UNCHANGED <<table, nextId, entity, roleCache_, roleNameIndex_, managed, first, op, ref,
                    synced, raced, late>>
    BY <1>1 DEF Entities!vars, Entities!database, Entities!caches, Entities!history
  <2>2. Entities!TypeOK' /\ DOMAIN op' = Thread
    BY <2>1 DEF RoleInv, Entities!TypeOK
  <2>3. OpsSound' /\ NamesFixed' /\ CachedUnderId'
    BY <2>1 DEF RoleInv, OpsSound, NamesFixed, CachedUnderId, Entities!Rows
  <2>4. NoDangling' /\ NoSilentLoss'
    BY <2>1 DEF RoleInv, NoDangling, NoSilentLoss, Entities!NoSilentLoss, Entities!Referenced
  <2>5. CacheCoherent'
    BY <2>1 DEF RoleInv, CacheCoherent, Entities!CacheCoherent, Entities!ServesLiving,
       Entities!IndexSound, Entities!Rows, Entities!Does
  <2> QED
    BY <2>2, <2>3, <2>4, <2>5 DEF RoleInv
<1>2. CASE Entities!Next
  BY <1>2, CrashStep, deleteRoleStep, getRoleStep, createRoleStep, insertRoleStep, setValueStep,
     saveStep, loadRoleStep, updateStep, cacheRoleStep, manageRoleStep, uncacheRoleStep
     DEF Entities!Next, Entities!Asked
<1> QED
  BY <1>1, <1>2

\* What EntityManager serves by id and by name is a role of the table, but for
\* deletes that are under way or were overtaken, for any number of threads,
\* accounts, names and roles, and across crashes.
THEOREM CachesServeTheTable == Entities!Spec => []CacheCoherent
<1>1. RoleInv => CacheCoherent
  BY DEF RoleInv
<1> QED
  BY <1>1, RoleInvInit, RoleInvStep, PTL DEF Entities!Spec

\* A change of an entity is dirty, stored, or was made while a save of it ran,
\* for any number of threads and entities.
THEOREM NoChangeIsForgotten == Entities!Spec => []NoSilentLoss
<1>1. RoleInv => NoSilentLoss
  BY DEF RoleInv
<1> QED
  BY <1>1, RoleInvInit, RoleInvStep, PTL DEF Entities!Spec

-----------------------------------------------------------------------------
(* The query builder. *)

\* A placeholder: its clause and its column.
Hole == {"where", "set", "values"} \X Column

\* The placeholders of a WHERE clause.
WhereHoles(s) == s \in Seq(Hole) /\ \A i \in DOMAIN s : s[i][1] = "where"

\* The clauses and parameters of a builder.
BuilderTypes ==
  /\ WhereHoles(whereClause_) /\ data_ \in Seq(Column) /\ params_ \in Seq(Hole)
  /\ wheres \in Nat /\ builds \in Nat

\* With one condition and nothing built yet the parameters are those of the
\* condition.
OneClause ==
  /\ wheres <= 1 /\ builds = 0 => params_ = whereClause_
  /\ wheres = 0 => whereClause_ = <<>>

\* The placeholders of a list of columns.
LEMMA TaggedHoles ==
  ASSUME NEW c \in {"where", "set", "values"}, NEW s \in Seq(Column)
  PROVE  /\ Builders!Tagged(c, s) \in Seq(Hole)
         /\ Len(Builders!Tagged(c, s)) = Len(s)
         /\ \A i \in DOMAIN Builders!Tagged(c, s) : Builders!Tagged(c, s)[i][1] = c
<1>1. DOMAIN s = 1..Len(s) /\ Len(s) \in Nat /\ \A i \in 1..Len(s) : s[i] \in Column
  OBVIOUS
<1>2. Builders!Tagged(c, s) = [i \in 1..Len(s) |-> <<c, s[i]>>]
  BY <1>1 DEF Builders!Tagged
<1>3. \A i \in 1..Len(s) : <<c, s[i]>> \in Hole
  BY <1>1 DEF Hole
<1> QED
  BY <1>1, <1>2, <1>3

\* The lists of columns are sequences of columns.
LEMMA ColumnListsAreSequences == Builders!ColumnLists \subseteq Seq(Column)
<1>1. ASSUME NEW a \in Column PROVE <<a>> \in Seq(Column)
  OBVIOUS
<1>2. ASSUME NEW a \in Column, NEW b \in Column PROVE <<a, b>> \in Seq(Column)
  OBVIOUS
<1>3. ASSUME NEW s \in Column \X Column PROVE s \in Seq(Column)
  <2>1. PICK a \in Column, b \in Column : s = <<a, b>>
    OBVIOUS
  <2> QED
    BY <1>2, <2>1
<1>4. ASSUME NEW s \in Builders!ColumnLists
      PROVE  s \in Column \X Column \/ \E a \in Column : s = <<a>>
  BY DEF Builders!ColumnLists
<1> QED
  BY <1>1, <1>3, <1>4

\* The parts of a concatenation.
LEMMA Parts ==
  ASSUME NEW a \in Seq(Hole), NEW b \in Seq(Hole)
  PROVE  /\ (a \o b) \in Seq(Hole) /\ Len(a \o b) = Len(a) + Len(b)
         /\ DOMAIN (a \o b) = 1..(Len(a) + Len(b))
         /\ \A i \in 1..(Len(a) + Len(b)) :
              (a \o b)[i] = IF i <= Len(a) THEN a[i] ELSE b[i - Len(a)]
         /\ SubSeq(a \o b, 1, Len(a)) = a
         /\ SubSeq(a \o b, Len(a) + 1, Len(a) + Len(b)) = b
<1>1. /\ (a \o b) \in Seq(Hole) /\ Len(a \o b) = Len(a) + Len(b)
      /\ DOMAIN (a \o b) = 1..(Len(a) + Len(b))
      /\ \A i \in 1..(Len(a) + Len(b)) :
           (a \o b)[i] = IF i <= Len(a) THEN a[i] ELSE b[i - Len(a)]
  OBVIOUS
<1>2. SubSeq(a \o b, 1, Len(a)) = a
  BY <1>1
<1>3. SubSeq(a \o b, Len(a) + 1, Len(a) + Len(b)) = b
  BY <1>1
<1> QED
  BY <1>1, <1>2, <1>3

\* What one statement hands out, for its kind, placeholders and parameters.
Aligned(kind, holes, bound) ==
  \/ bound = holes
  \/ kind = "values" /\ \E i \in DOMAIN bound : bound[i][1] = "where"
  \/ kind = "set" /\ \E n \in 0..Len(holes) :
       /\ \A i \in DOMAIN holes : holes[i][1] = IF i <= n THEN "set" ELSE "where"
       /\ bound = SubSeq(holes, n + 1, Len(holes)) \o SubSeq(holes, 1, n)

\* A statement whose parameters are aligned when the builder is used once.
LEMMA AlignedSuffices ==
  ASSUME NEW kind, NEW holes, NEW bound, Builders!Built(kind, holes, bound),
         wheres <= 1 /\ builds = 0 => Aligned(kind, holes, bound)
  PROVE  UsedOnceAligns'
<1>1. /\ sql'.kind = kind /\ sql'.holes = holes /\ sql'.bound = bound
      /\ sql'.once = (wheres <= 1 /\ builds = 0)
  BY DEF Builders!Built
<1>2. sql'.once => Aligned(sql'.kind, sql'.holes, sql'.bound)
  <2>1. ASSUME sql'.once PROVE Aligned(kind, holes, bound)
    BY <1>1, <2>1
  <2> QED
    BY <1>1, <2>1
<1> QED
  BY <1>2 DEF UsedOnceAligns, Builders!UsedOnceAligns, Aligned

\* The inductive invariant of the builder.
BuilderInv == BuilderTypes /\ OneClause /\ UsedOnceAligns

\* INSERT: aligned, or with the values of a condition first.
LEMMA InsertAligns ==
  ASSUME BuilderTypes, OneClause, wheres <= 1, builds = 0,
         NEW assigned \in Seq(Hole)
  PROVE  Aligned("values", assigned \o <<>>, params_ \o assigned)
<1>1. params_ = whereClause_ /\ WhereHoles(whereClause_)
  BY DEF OneClause, BuilderTypes
<1>2. assigned \o <<>> = assigned
  OBVIOUS
<1>3. CASE whereClause_ = <<>>
  BY <1>1, <1>2, <1>3 DEF Aligned
<1>4. CASE whereClause_ # <<>>
  <2>1. whereClause_ \in Seq(Hole) /\ Len(whereClause_) >= 1 /\ 1 \in DOMAIN whereClause_
    BY <1>1, <1>4 DEF WhereHoles
  <2>2. /\ 1 \in DOMAIN (whereClause_ \o assigned)
        /\ (whereClause_ \o assigned)[1] = whereClause_[1]
    BY <2>1, Parts
  <2>3. (whereClause_ \o assigned)[1][1] = "where"
    BY <1>1, <2>1, <2>2 DEF WhereHoles
  <2> QED
    BY <1>1, <2>2, <2>3 DEF Aligned
<1> QED
  BY <1>3, <1>4

\* UPDATE: the values of SET are rotated behind those of the condition.
LEMMA UpdateAligns ==
  ASSUME BuilderTypes, OneClause, wheres <= 1, builds = 0,
         NEW assigned \in Seq(Hole), \A i \in DOMAIN assigned : assigned[i][1] = "set"
  PROVE  Aligned("set", assigned \o whereClause_, params_ \o assigned)
<1>1. params_ = whereClause_ /\ WhereHoles(whereClause_) /\ whereClause_ \in Seq(Hole)
  BY DEF OneClause, BuilderTypes, WhereHoles
<1> DEFINE holes == assigned \o whereClause_
           n == Len(assigned)
<1>2. /\ Len(holes) = n + Len(whereClause_) /\ DOMAIN holes = 1..(n + Len(whereClause_))
      /\ \A i \in 1..(n + Len(whereClause_)) :
              holes[i] = IF i <= n THEN assigned[i] ELSE whereClause_[i - n]
  BY <1>1, Parts
<1>3. n \in Nat /\ Len(whereClause_) \in Nat /\ DOMAIN assigned = 1..n
      /\ DOMAIN whereClause_ = 1..Len(whereClause_)
  BY <1>1
<1>4. n \in 0..Len(holes)
  BY <1>2, <1>3
<1>5. ASSUME NEW i \in DOMAIN holes PROVE holes[i][1] = IF i <= n THEN "set" ELSE "where"
  <2>1. CASE i <= n
    BY <1>2, <1>3, <1>5, <2>1
  <2>2. CASE ~(i <= n)
    <3>1. (i - n) \in DOMAIN whereClause_ /\ holes[i] = whereClause_[i - n]
      BY <1>2, <1>3, <1>5, <2>2
    <3> QED
      BY <1>1, <2>2, <3>1 DEF WhereHoles
  <2> QED
    BY <2>1, <2>2
<1>6. SubSeq(holes, n + 1, Len(holes)) = whereClause_ /\ SubSeq(holes, 1, n) = assigned
  BY <1>1, <1>2, Parts
<1>7. params_ \o assigned = SubSeq(holes, n + 1, Len(holes)) \o SubSeq(holes, 1, n)
  BY <1>1, <1>6
<1> QED
  BY <1>4, <1>5, <1>7 DEF Aligned

\* A builder used for one statement hands out the parameters in the order of the
\* placeholders, two named statements apart, for any columns and any order of
\* the calls, and after reset() too.
THEOREM BuilderAligns == Builders!Spec => []UsedOnceAligns
<1>1. Builders!Init => BuilderInv
  BY DEF Builders!Init, BuilderInv, BuilderTypes, OneClause, WhereHoles, UsedOnceAligns,
     Builders!UsedOnceAligns, Builders!NoSQL
<1>2. BuilderInv /\ [Builders!Next]_(Builders!vars) => BuilderInv'
  <2> SUFFICES ASSUME BuilderInv, [Builders!Next]_(Builders!vars) PROVE BuilderInv'
    OBVIOUS
  <2>0. BuilderTypes /\ OneClause /\ UsedOnceAligns
    BY DEF BuilderInv
  <2>k. ASSUME UNCHANGED sql PROVE UsedOnceAligns'
    BY <2>0, <2>k DEF UsedOnceAligns, Builders!UsedOnceAligns
  <2>1. ASSUME NEW cs \in Builders!ColumnLists, Builders!where(cs) PROVE BuilderInv'
    <3>1. cs \in Seq(Column)
      BY ColumnListsAreSequences
    <3>2. PICK w \in Seq(Hole) : /\ w = Builders!Tagged("where", cs)
                                 /\ \A i \in DOMAIN w : w[i][1] = "where"
      BY <3>1, TaggedHoles
    <3>3. /\ whereClause_' = w /\ params_' = params_ \o w /\ wheres' = wheres + 1
          /\ UNCHANGED <<data_, sql, builds>>
      BY <2>1, <3>2 DEF Builders!where
    <3>4. BuilderTypes'
      BY <2>0, <3>2, <3>3 DEF BuilderTypes, WhereHoles
    <3>5. wheres = 0 /\ builds = 0 => params_ \o w = w
      BY <2>0 DEF OneClause, BuilderTypes
    <3>6. OneClause'
      BY <2>0, <3>3, <3>5 DEF OneClause, BuilderTypes
    <3> QED
      BY <2>k, <3>3, <3>4, <3>6 DEF BuilderInv
  <2>2. ASSUME NEW cs \in Builders!ColumnLists, Builders!set(cs) PROVE BuilderInv'
    BY <2>0, <2>2, <2>k, ColumnListsAreSequences
       DEF Builders!set, BuilderInv, BuilderTypes, OneClause
  <2>3. CASE Builders!wherePlain
    <3>1. /\ whereClause_' = <<>> /\ wheres' = wheres + 1
          /\ UNCHANGED <<data_, params_, sql, builds>>
      BY <2>3 DEF Builders!wherePlain
    <3>2. BuilderTypes'
      BY <2>0, <3>1 DEF BuilderTypes, WhereHoles
    <3>3. OneClause'
      BY <2>0, <3>1 DEF OneClause, BuilderTypes
    <3> QED
      BY <2>k, <3>1, <3>2, <3>3 DEF BuilderInv
  <2>4. CASE Builders!buildSelectSQL
    <3>1. /\ Builders!Built("select", whereClause_, params_)
          /\ UNCHANGED <<whereClause_, data_, params_, wheres, builds>>
      BY <2>4 DEF Builders!buildSelectSQL
    <3>2. wheres <= 1 /\ builds = 0 => Aligned("select", whereClause_, params_)
      BY <2>0 DEF OneClause, Aligned
    <3>3. UsedOnceAligns'
      BY <3>1, <3>2, AlignedSuffices
    <3> QED
      BY <2>0, <3>1, <3>3 DEF BuilderInv, BuilderTypes, OneClause
  <2>5. ASSUME NEW clause \in {"set", "values"}, NEW tail, Builders!Build(clause, tail),
               \A assigned \in Seq(Hole) :
                 /\ \A i \in DOMAIN assigned : assigned[i][1] = clause
                 /\ wheres <= 1 /\ builds = 0
                 => Aligned(clause, assigned \o tail, params_ \o assigned)
        PROVE  BuilderInv'
    <3>1. PICK a \in Seq(Hole) : /\ a = Builders!Tagged(clause, data_)
                                 /\ \A i \in DOMAIN a : a[i][1] = clause
      BY <2>0, TaggedHoles DEF BuilderTypes
    <3>2. /\ Builders!Built(clause, a \o tail, params_ \o a)
          /\ params_' = params_ \o a /\ builds' = builds + 1
          /\ UNCHANGED <<whereClause_, data_, wheres>>
      BY <2>5, <3>1 DEF Builders!Build
    <3>3. UsedOnceAligns'
      BY <2>5, <3>1, <3>2, AlignedSuffices
    <3>4. BuilderTypes' /\ OneClause'
      BY <2>0, <3>2 DEF BuilderTypes, OneClause
    <3> QED
      BY <3>3, <3>4 DEF BuilderInv
  <2>6. CASE Builders!buildInsertSQL
    BY <2>0, <2>5, <2>6, InsertAligns DEF Builders!buildInsertSQL
  <2>7. CASE Builders!buildUpdateSQL
    BY <2>0, <2>5, <2>7, UpdateAligns DEF Builders!buildUpdateSQL
  <2>8. CASE Builders!reset
    BY <2>8 DEF Builders!reset, BuilderInv, BuilderTypes, OneClause, WhereHoles, UsedOnceAligns,
     Builders!UsedOnceAligns, Builders!NoSQL
  <2>9. CASE UNCHANGED Builders!vars
    BY <2>0, <2>9, <2>k DEF Builders!vars, BuilderInv, BuilderTypes, OneClause
  <2> QED
    BY <2>1, <2>2, <2>3, <2>4, <2>6, <2>7, <2>8, <2>9 DEF Builders!Next
<1>3. BuilderInv => UsedOnceAligns
  BY DEF BuilderInv
<1> QED
  BY <1>1, <1>2, <1>3, PTL DEF Builders!Spec

-----------------------------------------------------------------------------
(* The MySQL connection. *)

\* In a live transaction what was acknowledged is open or kept, or excused.
AckedIsOpen ==
  session = "live" /\ inTransaction_ => acked \subseteq open \union durable \union orphaned

\* Outside of a transaction the session commits, or the failed switch is noted.
CommitsOutside == ~inTransaction_ /\ ~autocommit => unrestored

\* The inductive invariant of the MySQL connection.
LinkInv == AckedIsOpen /\ CommitsOutside /\ ReportedKept

\* commit() and rollback() leave a session that commits, or note that it does not.
LEMMA RestoreNotes == ASSUME Links!Restore PROVE ~autocommit' => unrestored'
<1>1. CASE autocommit' = TRUE /\ unrestored' = FALSE
  BY <1>1
<1>2. CASE UNCHANGED autocommit /\ unrestored' = ~autocommit
  <2>1. autocommit' = autocommit /\ unrestored' = ~autocommit
    BY <1>2
  <2> QED
    BY <2>1, Zenon
<1> QED
  BY <1>1, <1>2 DEF Links!Restore

\* What the program takes for committed is committed, but for a connection that
\* was replaced under its transaction and an autocommit that was not restored.
THEOREM ReportedUpdatesKept == Links!Spec => []ReportedKept
<1> USE DEF LinkInv, AckedIsOpen, CommitsOutside, ReportedKept, Links!ReportedKept
<1>1. Links!Init => LinkInv
  BY DEF Links!Init
<1>2. LinkInv /\ [Links!Next]_(Links!vars) => LinkInv'
  <2> SUFFICES ASSUME LinkInv, [Links!Next]_(Links!vars) PROVE LinkInv'
    OBVIOUS
  <2>1. CASE Links!connect
    BY <2>1 DEF Links!connect
  <2>2. CASE Links!disconnect
    BY <2>2 DEF Links!disconnect
  <2>3. CASE Links!beginTransaction
    BY <2>3 DEF Links!beginTransaction
  <2>4. CASE Links!commit
    <3>1. CommitsOutside'
      BY <2>4, RestoreNotes DEF Links!commit
    <3>2. AckedIsOpen' /\ ReportedKept'
      BY <2>4 DEF Links!commit, Links!Live
    <3> QED
      BY <3>1, <3>2
  <2>5. CASE Links!rollback
    <3>1. CommitsOutside'
      BY <2>5, RestoreNotes DEF Links!rollback
    <3>2. AckedIsOpen' /\ ReportedKept'
      BY <2>5 DEF Links!rollback, Links!Live
    <3> QED
      BY <3>1, <3>2
  <2>6. CASE Links!LoseSession
    BY <2>6 DEF Links!LoseSession, Links!flags, Links!history
  <2>7. ASSUME NEW u \in Update, Links!executeUpdate(u) PROVE LinkInv'
    BY <2>7 DEF Links!executeUpdate, Links!flags, Links!Live
  <2>8. CASE UNCHANGED Links!vars
    BY <2>8 DEF Links!vars, Links!flags, Links!server, Links!history
  <2> QED
    BY <2>1, <2>2, <2>3, <2>4, <2>5, <2>6, <2>7, <2>8 DEF Links!Next
<1>3. LinkInv => ReportedKept
  OBVIOUS
<1> QED
  BY <1>1, <1>2, <1>3, PTL DEF Links!Spec

-----------------------------------------------------------------------------
(* The Redis client. *)

\* Loans are numbers.
ClientTypes ==
  /\ queued \in [RedisClient -> SUBSET Nat] /\ loan \in [RedisClient -> Nat] /\ loans \in Nat

\* The inductive invariant of the Redis clients.
ClientInv == ClientTypes /\ NoCrossLoan

\* No command of a borrower ends up in the MULTI of another one, for any number
\* of clients and loans.
THEOREM NoCommandCrossesLoans == Clients!Spec => []NoCrossLoan
<1> USE DEF ClientInv, ClientTypes, NoCrossLoan, Clients!NoCrossLoan
<1>1. Clients!Init => ClientInv
  BY DEF Clients!Init
<1>2. ClientInv /\ [Clients!Next]_(Clients!vars) => ClientInv'
  <2> SUFFICES ASSUME ClientInv, [Clients!Next]_(Clients!vars) PROVE ClientInv'
    OBVIOUS
  <2>1. ASSUME NEW k \in RedisClient, Clients!borrow(k) PROVE ClientInv'
    BY <2>1 DEF Clients!borrow, Clients!ping, Clients!Fresh
  <2>2. ASSUME NEW k \in RedisClient,
               Clients!borrowNothing(k) \/ Clients!multi(k) \/ Clients!subscribe(k)
                 \/ Clients!unsubscribe(k)
        PROVE  ClientInv'
    BY <2>2 DEF Clients!borrowNothing, Clients!multi, Clients!subscribe, Clients!unsubscribe
  <2>3. ASSUME NEW k \in RedisClient, Clients!returnConnection(k) PROVE ClientInv'
    BY <2>3 DEF Clients!returnConnection
  <2>4. ASSUME NEW k \in RedisClient, Clients!exec(k) PROVE ClientInv'
    BY <2>4 DEF Clients!exec
  <2>5. ASSUME NEW k \in RedisClient, NEW c \in Clients!Command, Clients!execute(k, c)
        PROVE  ClientInv'
    <3>1. /\ queued' = queued \/ queued' = [queued EXCEPT ![k] = @ \union {loan[k]}]
          /\ loan[k] # 0 /\ UNCHANGED <<loan, loans>>
      BY <2>5 DEF Clients!execute
    <3> QED
      BY <3>1
  <2>6. CASE UNCHANGED Clients!vars
    BY <2>6 DEF Clients!vars
  <2> QED
    BY <2>1, <2>2, <2>3, <2>4, <2>5, <2>6 DEF Clients!Next
<1>3. ClientInv => NoCrossLoan
  OBVIOUS
<1> QED
  BY <1>1, <1>2, <1>3, PTL DEF Clients!Spec

\* The fields of an outcome.
LEMMA OutcomeFields ==
  ASSUME NEW c, NEW r, NEW done, NEW inMulti, last' = Clients!Outcome(c, r, done, inMulti)
  PROVE  /\ last'.command = c /\ last'.type = r.type /\ last'.result = Clients!Result(c, r)
         /\ last'.done = done /\ last'.queued = inMulti
  BY DEF Clients!Outcome

\* What a command came to is what its reply says, for each of the four ways a
\* reply comes about.
LEMMA ExecuteStep ==
  ASSUME NEW k \in RedisClient, NEW c \in Clients!Command, Clients!execute(k, c)
  PROVE  TrueMeansDone'
<1>0. SUFFICES ASSUME last'.result
               PROVE  \/ last'.done \/ last'.queued
                      \/ last'.command \in {"value", "valid"} /\ last'.type = "ERROR"
  BY DEF TrueMeansDone, Clients!TrueMeansDone
<1>1. ASSUME NEW t \in Clients!Carried(c), NEW p \in BOOLEAN,
             last' = Clients!Outcome(c, Clients!Answer(t, p), p \/ c # "positive", FALSE)
      PROVE  last'.done
  <2>1. /\ last'.result = Clients!Result(c, Clients!Answer(t, p))
        /\ last'.done = (p \/ c # "positive")
    BY <1>1, OutcomeFields
  <2>2. CASE c = "positive"
    BY <1>0, <2>1, <2>2 DEF Clients!Result, Clients!isPositive, Clients!Answer
  <2>3. CASE c # "positive"
    BY <2>1, <2>3
  <2> QED
    BY <2>2, <2>3
<1>2. ASSUME last' = Clients!Outcome(c, Clients!Answer("STATUS", FALSE), FALSE, TRUE)
      PROVE  last'.queued
  BY <1>2, OutcomeFields
<1>3. ASSUME last' = Clients!Outcome(c, Clients!Answer("ERROR", FALSE), FALSE, FALSE)
      PROVE  last'.command \in {"value", "valid"} /\ last'.type = "ERROR"
  <2>1. /\ last'.command = c /\ last'.type = "ERROR"
        /\ last'.result = Clients!Result(c, Clients!Answer("ERROR", FALSE))
    <3>1. last'.command = c /\ last'.type = Clients!Answer("ERROR", FALSE).type
      BY <1>3, OutcomeFields
    <3>2. Clients!Answer("ERROR", FALSE).type = "ERROR"
      BY DEF Clients!Answer
    <3>3. last'.result = Clients!Result(c, Clients!Answer("ERROR", FALSE))
      BY <1>3, OutcomeFields
    <3> QED
      BY <3>1, <3>2, <3>3
  <2>2. c \in {"value", "valid"}
    BY <1>0, <2>1 DEF Clients!Result, Clients!Answer, Clients!isStatus, Clients!isPositive,
       Clients!isArray, Clients!Command
  <2> QED
    BY <2>1, <2>2
<1>4. ASSUME NEW done, last' = Clients!Outcome(c, Clients!Silent, done, FALSE)
      PROVE  FALSE
  <2>1. last'.result = Clients!Result(c, Clients!Silent)
    BY <1>4, OutcomeFields
  <2> QED
    BY <1>0, <2>1 DEF Clients!Result, Clients!Silent
<1> QED
  BY <1>1, <1>2, <1>3, <1>4 DEF Clients!execute

\* A wrapper that returns true did what it was asked to do or queued it, but for
\* the wrappers that take an error for a value.
THEOREM TrueRepliesAreDone == Clients!Spec => []TrueMeansDone
<1>1. Clients!Init => TrueMeansDone
  BY DEF Clients!Init, TrueMeansDone, Clients!TrueMeansDone, Clients!Outcome, Clients!Result, Clients!Silent
<1>2. TrueMeansDone /\ [Clients!Next]_(Clients!vars) => TrueMeansDone'
  <2> SUFFICES ASSUME TrueMeansDone, [Clients!Next]_(Clients!vars) PROVE TrueMeansDone'
    OBVIOUS
  <2>1. ASSUME NEW k \in RedisClient, NEW c \in Clients!Command, Clients!execute(k, c)
        PROVE  TrueMeansDone'
    BY <2>1, ExecuteStep
  <2>2. CASE UNCHANGED last
    BY <2>2 DEF TrueMeansDone, Clients!TrueMeansDone
  <2> QED
    BY <2>1, <2>2 DEF Clients!Next, Clients!vars, Clients!borrow, Clients!borrowNothing,
       Clients!returnConnection, Clients!multi, Clients!exec, Clients!subscribe, Clients!unsubscribe
<1> QED
  BY <1>1, <1>2, PTL DEF Clients!Spec

-----------------------------------------------------------------------------
(* Logins and sessions. *)

\* The steps of a login that has its token.
LoginSteps == {"setToken", "setOnline", "finish"}

\* What a request about logins may do next.
LoginOp ==
  {Logins!Idle}
  \union [do : LoginSteps, session : Logins!Session, account : Player, token : Nat \ {0}]
  \union [do : {"delOnline", "delToken"}, session : Logins!Session]

\* Sessions, tokens and requests.
LoginTypes ==
  /\ tokens \in 0..MaxToken /\ DOMAIN store = 1..MaxToken
  /\ DOMAIN player = Logins!Session /\ token \in [Logins!Session -> Nat]
  /\ DOMAIN tenant = Logins!Session
  /\ pool_ \in Seq(Nat) /\ nextId_ \in Nat
  /\ loginOp \in [Thread -> LoginOp]

\* A login of thread t is under way.
LoginRuns(t) == loginOp[t].do \in LoginSteps

\* No token is given out twice.
TokensDiffer ==
  /\ revoked \subseteq 1..tokens
  /\ \A s \in Logins!Session : token[s] <= tokens
  /\ \A t \in Thread : LoginRuns(t) => loginOp[t].token <= tokens
  /\ \A t, u \in Thread :
       LoginRuns(t) /\ LoginRuns(u) /\ t # u => loginOp[t].token # loginOp[u].token

\* A token that is about to be stored is in no session and was not revoked.
UnstoredIsNew ==
  \A t \in Thread : loginOp[t].do = "setToken" =>
    /\ loginOp[t].token \notin revoked
    /\ \A s \in Logins!Session : token[s] # loginOp[t].token

\* A token that was revoked is not in Redis.
RevokedIsGone == \A k \in revoked : store[k] = Logins!Nobody

\* A login uses a session that is not in the pool, or was released meanwhile.
LoginsHoldSessions ==
  \A t \in Thread : LoginRuns(t) => loginOp[t].session \in Logins!Acquired \union overlap

\* The inductive invariant of the tokens.
TokenInv == LoginTypes /\ TokensDiffer /\ UnstoredIsNew /\ RevokedIsGone
\* The inductive invariant of the sessions.
LoginInv == LoginTypes /\ LoginsHoldSessions /\ IdentityOwn

-----------------------------------------------------------------------------
\* acquire() takes one session that was not acquired, and no other leaves or
\* enters the pool; new sessions come in when the pool is empty.
LEMMA PoolStep ==
  ASSUME LoginTypes, Logins!acquire
  PROVE  /\ pool_' \in Seq(Nat) /\ nextId_' \in Nat
         /\ \E s \in Nat : /\ s \notin Logins!Acquired
                           /\ tenant' = [tenant EXCEPT ![s] = Logins!Nobody]
                           /\ \A i \in Nat \ {s} : i \in Logins!Acquired' <=> i \in Logins!Acquired
<1> USE DEF Logins!Acquired, Logins!Pooled
<1>0. pool_ \in Seq(Nat) /\ nextId_ \in Nat /\ Capacity \in Nat /\ Capacity >= 1
  BY LoginAssumption DEF LoginTypes
<1>1. CASE pool_ = <<>>
  <2> DEFINE new == [i \in 1..Capacity |-> nextId_ + i]
  <2>1. new \in Seq(Nat) /\ Len(new) = Capacity /\ new[Capacity] = nextId_ + Capacity
    BY <1>0
  <2>2. /\ nextId_' = nextId_ + Capacity
        /\ pool_' = SubSeq(new, 1, Capacity - 1)
        /\ tenant' = [tenant EXCEPT ![nextId_ + Capacity] = Logins!Nobody]
    BY <1>1, <2>1 DEF Logins!acquire
  <2>3. /\ SubSeq(new, 1, Capacity - 1) \in Seq(Nat)
        /\ DOMAIN SubSeq(new, 1, Capacity - 1) = 1..(Capacity - 1)
        /\ \A i \in 1..(Capacity - 1) : SubSeq(new, 1, Capacity - 1)[i] = nextId_ + i
    BY <1>0, <2>1
  <2>4. Logins!Pooled' = (nextId_ + 1) .. (nextId_ + Capacity - 1)
    <3>1. ASSUME NEW k \in (nextId_ + 1) .. (nextId_ + Capacity - 1)
          PROVE  k \in Logins!Pooled'
      <4>1. (k - nextId_) \in 1..(Capacity - 1) /\ k = nextId_ + (k - nextId_)
        BY <1>0
      <4> QED
        BY <2>2, <2>3, <4>1
    <3>2. ASSUME NEW k \in Logins!Pooled' PROVE k \in (nextId_ + 1) .. (nextId_ + Capacity - 1)
      <4>1. PICK i \in 1..(Capacity - 1) : k = nextId_ + i
        BY <2>2, <2>3
      <4> QED
        BY <1>0, <4>1
    <3> QED
      BY <3>1, <3>2
  <2>5. Logins!Pooled = {}
    BY <1>1
  <2>6. nextId_ + Capacity \in Nat /\ nextId_ + Capacity \notin Logins!Acquired
    BY <1>0
  <2>7. ASSUME NEW i \in Nat \ {nextId_ + Capacity}
        PROVE  i \in Logins!Acquired' <=> i \in Logins!Acquired
    <3> HIDE DEF Logins!Pooled
    <3>1. i \in Logins!Pooled' <=> nextId_ + 1 <= i /\ i <= nextId_ + Capacity - 1
      BY <1>0, <2>4
    <3>2. i \in Logins!Acquired' <=> i \in 1..(nextId_ + Capacity) /\ i \notin Logins!Pooled'
      BY <2>2
    <3>3. i \in Logins!Acquired <=> i \in 1..nextId_
      BY <2>5
    <3> QED
      BY <1>0, <3>1, <3>2, <3>3
  <2>8. pool_' \in Seq(Nat) /\ nextId_' \in Nat
    BY <1>0, <2>2, <2>3
  <2> QED
    BY <2>2, <2>6, <2>7, <2>8
<1>2. CASE pool_ # <<>>
  <2>1. Len(pool_) \in Nat /\ Len(pool_) >= 1 /\ DOMAIN pool_ = 1..Len(pool_)
    BY <1>0, <1>2
  <2>2. PICK n \in Nat : n = Len(pool_)
    BY <2>1
  <2>3. PICK s \in Nat : s = pool_[n]
    BY <1>0, <2>1, <2>2
  <2>4. /\ nextId_' = nextId_ /\ pool_' = SubSeq(pool_, 1, n - 1)
        /\ tenant' = [tenant EXCEPT ![s] = Logins!Nobody]
    BY <1>2, <2>2, <2>3 DEF Logins!acquire
  <2>5. /\ SubSeq(pool_, 1, n - 1) \in Seq(Nat)
        /\ DOMAIN SubSeq(pool_, 1, n - 1) = 1..(n - 1)
        /\ \A i \in 1..(n - 1) : SubSeq(pool_, 1, n - 1)[i] = pool_[i]
    BY <1>0, <2>1, <2>2
  <2>6. s \in Logins!Pooled
    BY <2>1, <2>2, <2>3
  <2>7. ASSUME NEW i \in Nat \ {s}
        PROVE  i \in Logins!Pooled' <=> i \in Logins!Pooled
    <3>1. ASSUME NEW j \in 1..n, pool_[j] = i PROVE i \in Logins!Pooled'
      <4>1. j \in 1..(n - 1)
        BY <2>3, <3>1
      <4> QED
        BY <2>4, <2>5, <3>1, <4>1
    <3>2. ASSUME NEW j \in 1..(n - 1), pool_'[j] = i PROVE i \in Logins!Pooled
      <4>1. j \in 1..n /\ pool_[j] = i
        BY <2>4, <2>5, <3>2
      <4> QED
        BY <2>1, <2>2, <4>1
    <3> QED
      BY <2>1, <2>2, <2>4, <2>5, <3>1, <3>2
  <2>8. \A i \in Nat \ {s} : i \in Logins!Acquired' <=> i \in Logins!Acquired
    BY <2>4, <2>7
  <2>9. pool_' \in Seq(Nat) /\ nextId_' \in Nat
    BY <1>0, <2>4, <2>5
  <2> QED
    BY <2>3, <2>4, <2>6, <2>8, <2>9
<1> QED
  BY <1>1, <1>2

\* release() puts one session back.
LEMMA ReleaseStep ==
  ASSUME LoginTypes, NEW s \in Logins!Session, Logins!release(s)
  PROVE  /\ pool_' \in Seq(Nat) /\ s \in Nat /\ s \notin Logins!Acquired'
         /\ \A i \in Nat \ {s} : i \in Logins!Acquired' <=> i \in Logins!Acquired
<1> USE DEF Logins!Acquired, Logins!Pooled
<1>0. /\ pool_ \in Seq(Nat) /\ nextId_' = nextId_ /\ s \in Nat /\ pool_' = Append(pool_, s)
  BY LoginAssumption DEF LoginTypes, Logins!release, Logins!Session
<1>1. /\ Append(pool_, s) \in Seq(Nat) /\ Len(pool_) \in Nat /\ DOMAIN pool_ = 1..Len(pool_)
      /\ DOMAIN Append(pool_, s) = 1..(Len(pool_) + 1)
      /\ Append(pool_, s)[Len(pool_) + 1] = s
      /\ \A i \in 1..Len(pool_) : Append(pool_, s)[i] = pool_[i]
  BY <1>0
<1>2. Logins!Pooled' = Logins!Pooled \union {s}
  <2>1. ASSUME NEW k \in Logins!Pooled' PROVE k \in Logins!Pooled \union {s}
    <3>1. PICK i \in 1..(Len(pool_) + 1) : k = Append(pool_, s)[i]
      BY <1>0, <1>1
    <3> QED
      BY <1>1, <3>1
  <2>2. ASSUME NEW k \in Logins!Pooled \union {s} PROVE k \in Logins!Pooled'
    <3>1. PICK i \in 1..(Len(pool_) + 1) : k = Append(pool_, s)[i]
      BY <1>1
    <3> QED
      BY <1>0, <1>1, <3>1
  <2> QED
    BY <2>1, <2>2
<1> QED
  BY <1>0, <1>1, <1>2

-----------------------------------------------------------------------------
\* The next step of a login keeps its session and its token.
LEMMA LoginAdvances ==
  ASSUME NEW o \in LoginOp, o.do \in LoginSteps, NEW d \in LoginSteps
  PROVE  /\ [o EXCEPT !.do = d] \in LoginOp /\ [o EXCEPT !.do = d].do = d
         /\ [o EXCEPT !.do = d].token = o.token /\ [o EXCEPT !.do = d].session = o.session
         /\ o.session \in Logins!Session /\ o.account \in Player /\ o.token \in Nat \ {0}
<1>1. o \in [do : LoginSteps, session : Logins!Session, account : Player, token : Nat \ {0}]
  BY DEF LoginOp, Logins!Idle, LoginSteps
<1>2. [o EXCEPT !.do = d] \in [do : LoginSteps, session : Logins!Session, account : Player, token : Nat \ {0}]
  BY <1>1
<1> QED
  BY <1>1, <1>2 DEF LoginOp

\* The next step of a logout.
LEMMA LogoutAdvances ==
  ASSUME NEW o \in LoginOp, o.do \in {"delOnline", "delToken"}
  PROVE  /\ [o EXCEPT !.do = "delToken"] \in LoginOp /\ [o EXCEPT !.do = "delToken"].do = "delToken"
         /\ o.session \in Logins!Session
<1>1. o \in [do : {"delOnline", "delToken"}, session : Logins!Session]
  BY DEF LoginOp, Logins!Idle, LoginSteps
<1>2. [o EXCEPT !.do = "delToken"] \in [do : {"delOnline", "delToken"}, session : Logins!Session]
  BY <1>1
<1> QED
  BY <1>1, <1>2 DEF LoginOp

\* A thread without a request is in no login.
LEMMA IdleLogin == Logins!Idle \in LoginOp /\ Logins!Idle.do = "idle" /\ "idle" \notin LoginSteps
  BY DEF LoginOp, Logins!Idle, LoginSteps

\* Every step replaces at most the operation of one thread, by an operation.
LEMMA LoginTypesStep ==
  ASSUME LoginTypes, [Logins!Next]_(Logins!vars)
  PROVE  LoginTypes'
<1>0. MaxToken \in Nat /\ tokens \in Nat /\ tokens <= MaxToken /\ loginOp \in [Thread -> LoginOp]
  BY LoginAssumption DEF LoginTypes
<1>k. ASSUME NEW t \in Thread, NEW n \in LoginOp, Logins!Then(t, n)
      PROVE  loginOp' \in [Thread -> LoginOp]
  BY <1>0, <1>k DEF Logins!Then
<1>1. ASSUME NEW t \in Thread, NEW s \in Logins!Session, NEW a \in Player,
             Logins!handleLogin(t, s, a)
      PROVE  LoginTypes'
  <2>1. PICK d \in {"setToken", "finish"} :
          Logins!Then(t, [do |-> d, session |-> s, account |-> a, token |-> tokens + 1])
    BY <1>1 DEF Logins!handleLogin
  <2>2. [do |-> d, session |-> s, account |-> a, token |-> tokens + 1] \in LoginOp
    BY <1>0 DEF LoginOp, LoginSteps
  <2>3. loginOp' \in [Thread -> LoginOp]
    BY <1>k, <2>1, <2>2
  <2>4. tokens' = tokens + 1 /\ tokens < MaxToken
    BY <1>1 DEF Logins!handleLogin
  <2>5. tokens' \in 0..MaxToken
    BY <1>0, <2>4
  <2> QED
    BY <1>1, <2>3, <2>5
       DEF Logins!handleLogin, LoginTypes, Logins!redis, Logins!session, Logins!pool, Logins!history
<1>2. ASSUME NEW t \in Thread, NEW s \in Logins!Session, Logins!handleLogout(t, s)
      PROVE  LoginTypes'
  <2>1. [do |-> "delOnline", session |-> s] \in LoginOp
    BY DEF LoginOp
  <2>2. loginOp' \in [Thread -> LoginOp]
    BY <1>2, <1>k, <2>1 DEF Logins!handleLogout
  <2> QED
    BY <1>2, <2>2
       DEF Logins!handleLogout, LoginTypes, Logins!redis, Logins!session, Logins!pool, Logins!history
<1>3. ASSUME NEW t \in Thread, Logins!setTokenKey(t) PROVE LoginTypes'
  <2>1. [loginOp[t] EXCEPT !.do = "setOnline"] \in LoginOp
    BY <1>0, <1>3, LoginAdvances DEF Logins!setTokenKey, Logins!Does, LoginSteps
  <2>2. loginOp' \in [Thread -> LoginOp]
    BY <1>3, <1>k, <2>1 DEF Logins!setTokenKey
  <2>3. DOMAIN store' = 1..MaxToken
    BY <1>3 DEF Logins!setTokenKey, LoginTypes
  <2> QED
    BY <1>3, <2>2, <2>3 DEF Logins!setTokenKey, LoginTypes, Logins!session, Logins!pool, Logins!history
<1>4. ASSUME NEW t \in Thread, Logins!setOnlineKey(t) PROVE LoginTypes'
  <2>1. [loginOp[t] EXCEPT !.do = "finish"] \in LoginOp
    BY <1>0, <1>4, LoginAdvances DEF Logins!setOnlineKey, Logins!Does, LoginSteps
  <2>2. loginOp' \in [Thread -> LoginOp]
    BY <1>4, <1>k, <2>1 DEF Logins!setOnlineKey
  <2> QED
    BY <1>4, <2>2 DEF Logins!setOnlineKey, LoginTypes, Logins!session, Logins!pool, Logins!history
<1>5. ASSUME NEW t \in Thread, Logins!finishLogin(t) PROVE LoginTypes'
  <2>1. loginOp[t].token \in Nat
    BY <1>0, <1>5, LoginAdvances DEF Logins!finishLogin, Logins!Does, LoginSteps
  <2>2. loginOp' \in [Thread -> LoginOp]
    BY <1>5, <1>k, IdleLogin DEF Logins!finishLogin
  <2> QED
    BY <1>5, <2>1, <2>2 DEF Logins!finishLogin, LoginTypes, Logins!redis, Logins!pool
<1>6. ASSUME NEW t \in Thread, Logins!delOnlineKey(t) PROVE LoginTypes'
  <2>1. [loginOp[t] EXCEPT !.do = "delToken"] \in LoginOp
    BY <1>0, <1>6, LogoutAdvances DEF Logins!delOnlineKey, Logins!Does
  <2>2. loginOp' \in [Thread -> LoginOp]
    BY <1>6, <1>k, <2>1 DEF Logins!delOnlineKey
  <2> QED
    BY <1>6, <2>2 DEF Logins!delOnlineKey, LoginTypes, Logins!session, Logins!pool, Logins!history
<1>7. ASSUME NEW t \in Thread, Logins!delTokenKey(t) PROVE LoginTypes'
  <2>1. loginOp' \in [Thread -> LoginOp]
    BY <1>7, <1>k, IdleLogin DEF Logins!delTokenKey
  <2>2. DOMAIN store' = 1..MaxToken
    BY <1>7 DEF Logins!delTokenKey, LoginTypes
  <2> QED
    BY <1>7, <2>1, <2>2 DEF Logins!delTokenKey, LoginTypes, Logins!session, Logins!pool
<1>9. CASE Logins!acquire
  BY <1>9, PoolStep DEF Logins!acquire, LoginTypes, Logins!redis, Logins!session
<1>10. ASSUME NEW s \in Logins!Session, Logins!release(s) PROVE LoginTypes'
  BY <1>10, ReleaseStep DEF Logins!release, LoginTypes, Logins!redis, Logins!NoToken
<1>11. CASE Logins!Expire
  BY <1>11 DEF Logins!Expire, LoginTypes, Logins!session, Logins!pool, Logins!history
<1>12. CASE UNCHANGED Logins!vars
  BY <1>12 DEF Logins!vars, LoginTypes, Logins!redis, Logins!session, Logins!pool, Logins!history
<1> QED
  BY <1>1, <1>2, <1>3, <1>4, <1>5, <1>6, <1>7, <1>9, <1>10, <1>11, <1>12 DEF Logins!Next

-----------------------------------------------------------------------------
\* A step after which a thread goes on with its token, or ends.
LEMMA TokenKept ==
  ASSUME LoginTypes, TokensDiffer, UnstoredIsNew, NEW t \in Thread, NEW n \in LoginOp,
         Logins!Then(t, n), n.do # "setToken",
         n.do \in LoginSteps => LoginRuns(t) /\ n.token = loginOp[t].token,
         UNCHANGED <<tokens, token, revoked>>
  PROVE  TokensDiffer' /\ UnstoredIsNew'
<1>1. /\ loginOp'[t] = n
      /\ \A u \in Thread \ {t} : loginOp'[u] = loginOp[u]
  BY DEF Logins!Then, LoginTypes
<1>2. TokensDiffer'
  BY <1>1 DEF TokensDiffer, LoginRuns
<1>3. UnstoredIsNew'
  BY <1>1 DEF UnstoredIsNew
<1> QED
  BY <1>2, <1>3

\* Every step keeps the tokens apart and the revoked ones dead.
LEMMA TokenStep ==
  ASSUME TokenInv, [Logins!Next]_(Logins!vars)
  PROVE  TokensDiffer' /\ UnstoredIsNew' /\ RevokedIsGone'
<1>0. /\ MaxToken \in Nat /\ tokens \in Nat /\ tokens <= MaxToken
      /\ LoginTypes /\ TokensDiffer /\ UnstoredIsNew /\ RevokedIsGone
      /\ loginOp \in [Thread -> LoginOp]
  BY LoginAssumption DEF LoginTypes, TokenInv
<1>k. ASSUME UNCHANGED <<store, revoked>> PROVE RevokedIsGone'
  BY <1>0, <1>k DEF RevokedIsGone
<1>1. ASSUME NEW t \in Thread, NEW s \in Logins!Session, NEW a \in Player,
             Logins!handleLogin(t, s, a)
      PROVE  TokensDiffer' /\ UnstoredIsNew' /\ RevokedIsGone'
  <2>1. PICK n : /\ n.do \in LoginSteps /\ n.token = tokens + 1
                 /\ loginOp' = [loginOp EXCEPT ![t] = n]
    <3>1. PICK d \in {"setToken", "finish"} :
            loginOp' = [loginOp EXCEPT ![t] = [do |-> d, session |-> s, account |-> a,
                                                token |-> tokens + 1]]
      BY <1>1 DEF Logins!handleLogin, Logins!Then
    <3>2. PICK n : n = [do |-> d, session |-> s, account |-> a, token |-> tokens + 1]
      OBVIOUS
    <3> QED
      BY <3>1, <3>2 DEF LoginSteps
  <2>2. /\ loginOp'[t] = n
        /\ \A u \in Thread \ {t} : loginOp'[u] = loginOp[u]
    BY <1>0, <2>1
  <2>3. tokens' = tokens + 1 /\ UNCHANGED <<store, token, revoked>>
    BY <1>1 DEF Logins!handleLogin, Logins!session, Logins!history, Logins!redis
  <2>4. /\ \A u \in Thread : LoginRuns(u) => loginOp[u].token \in Nat /\ loginOp[u].token <= tokens
        /\ \A i \in Logins!Session : token[i] \in Nat /\ token[i] <= tokens
        /\ \A k \in revoked : k \in Nat /\ k <= tokens /\ k >= 1
    <3>1. ASSUME NEW u \in Thread, LoginRuns(u) PROVE loginOp[u].token \in Nat
      BY <1>0, <3>1, LoginAdvances DEF LoginRuns
    <3> QED
      BY <1>0, <3>1 DEF TokensDiffer, LoginTypes
  <2>5. \A u \in Thread \ {t} : LoginRuns(u)' => LoginRuns(u)
    BY <2>2 DEF LoginRuns
  <2>6. TokensDiffer'
    <3>1. revoked' \subseteq 1..tokens'
      BY <1>0, <2>3, <2>4
    <3>2. \A i \in Logins!Session : token'[i] <= tokens'
      BY <1>0, <2>3, <2>4
    <3>3. \A u \in Thread : LoginRuns(u)' => loginOp'[u].token <= tokens'
      BY <1>0, <2>1, <2>2, <2>3, <2>4, <2>5
    <3>4. \A u \in Thread \ {t} : LoginRuns(u)' => loginOp'[u].token # n.token
      BY <1>0, <2>1, <2>2, <2>4, <2>5
    <3>5. ASSUME NEW u \in Thread, NEW w \in Thread, LoginRuns(u)', LoginRuns(w)', u # w
          PROVE  loginOp'[u].token # loginOp'[w].token
      <4>1. CASE u # t /\ w # t
        BY <1>0, <2>2, <2>5, <3>5, <4>1 DEF TokensDiffer
      <4> QED
        BY <2>2, <3>4, <3>5, <4>1
    <3> QED
      BY <3>1, <3>2, <3>3, <3>5 DEF TokensDiffer
  <2>7. UnstoredIsNew'
    <3>1. n.token \notin revoked /\ \A i \in Logins!Session : token[i] # n.token
      BY <1>0, <2>1, <2>4
    <3> QED
      BY <1>0, <2>2, <2>3, <3>1 DEF UnstoredIsNew
  <2> QED
    BY <1>k, <2>3, <2>6, <2>7
<1>2. ASSUME NEW t \in Thread, NEW s \in Logins!Session, Logins!handleLogout(t, s)
      PROVE  TokensDiffer' /\ UnstoredIsNew' /\ RevokedIsGone'
  <2>1. PICK n \in LoginOp : n = [do |-> "delOnline", session |-> s]
    BY DEF LoginOp
  <2>2. n.do = "delOnline" /\ n.do \notin LoginSteps
    BY <2>1 DEF LoginSteps
  <2>3. Logins!Then(t, n) /\ UNCHANGED <<store, tokens, token, revoked>>
    BY <1>2, <2>1 DEF Logins!handleLogout, Logins!session, Logins!history, Logins!redis
  <2> QED
    BY <1>0, <1>k, <2>2, <2>3, TokenKept
<1>3. ASSUME NEW t \in Thread, Logins!setTokenKey(t)
      PROVE  TokensDiffer' /\ UnstoredIsNew' /\ RevokedIsGone'
  <2>0. loginOp[t].do = "setToken" /\ loginOp[t].do \in LoginSteps /\ loginOp[t] \in LoginOp
    BY <1>0, <1>3 DEF Logins!setTokenKey, Logins!Does, LoginSteps
  <2>1. PICK n : n = [loginOp[t] EXCEPT !.do = "setOnline"]
    OBVIOUS
  <2>2. n \in LoginOp /\ n.do = "setOnline" /\ n.token = loginOp[t].token
    BY <2>0, <2>1, LoginAdvances DEF LoginSteps
  <2>3. Logins!Then(t, n) /\ UNCHANGED <<tokens, token, revoked>>
    BY <1>3, <2>1 DEF Logins!setTokenKey, Logins!session, Logins!history
  <2>4. TokensDiffer' /\ UnstoredIsNew'
    BY <1>0, <2>0, <2>2, <2>3, TokenKept DEF LoginRuns
  <2>5. loginOp[t].token \notin revoked
    BY <1>0, <2>0 DEF UnstoredIsNew
  <2>6. \A k \in revoked : store'[k] = store[k]
    <3>1. revoked \subseteq DOMAIN store
      BY <1>0 DEF TokensDiffer, LoginTypes
    <3> QED
      BY <1>3, <2>5, <3>1 DEF Logins!setTokenKey
  <2>7. RevokedIsGone'
    BY <1>0, <2>3, <2>6 DEF RevokedIsGone
  <2> QED
    BY <2>4, <2>7
<1>4. ASSUME NEW t \in Thread, Logins!setOnlineKey(t)
      PROVE  TokensDiffer' /\ UnstoredIsNew' /\ RevokedIsGone'
  <2>0. loginOp[t].do \in LoginSteps /\ loginOp[t] \in LoginOp
    BY <1>0, <1>4 DEF Logins!setOnlineKey, Logins!Does, LoginSteps
  <2>1. PICK n : n = [loginOp[t] EXCEPT !.do = "finish"]
    OBVIOUS
  <2>2. n \in LoginOp /\ n.do = "finish" /\ n.token = loginOp[t].token
    BY <2>0, <2>1, LoginAdvances DEF LoginSteps
  <2>3. Logins!Then(t, n) /\ UNCHANGED <<store, tokens, token, revoked>>
    BY <1>4, <2>1 DEF Logins!setOnlineKey, Logins!session, Logins!history
  <2> QED
    BY <1>0, <1>k, <2>0, <2>2, <2>3, TokenKept DEF LoginRuns
<1>5. ASSUME NEW t \in Thread, Logins!finishLogin(t)
      PROVE  TokensDiffer' /\ UnstoredIsNew' /\ RevokedIsGone'
  <2>0. loginOp[t].do \in LoginSteps /\ loginOp[t].do = "finish" /\ loginOp[t] \in LoginOp
    BY <1>0, <1>5 DEF Logins!finishLogin, Logins!Does, LoginSteps
  <2>1. PICK k \in Nat, s \in Logins!Session : k = loginOp[t].token /\ s = loginOp[t].session
    BY <2>0, LoginAdvances
  <2>2. /\ token' = [token EXCEPT ![s] = k] /\ loginOp' = [loginOp EXCEPT ![t] = Logins!Idle]
        /\ UNCHANGED <<store, tokens, revoked>>
    BY <1>5, <2>1 DEF Logins!finishLogin, Logins!Then, Logins!redis
  <2>3. /\ loginOp'[t].do = "idle" /\ ~LoginRuns(t)'
        /\ \A u \in Thread \ {t} : loginOp'[u] = loginOp[u]
    BY <1>0, <2>2, IdleLogin DEF LoginRuns
  <2>4. k <= tokens
    BY <1>0, <2>0, <2>1 DEF TokensDiffer, LoginRuns
  <2>5. \A i \in Logins!Session : token'[i] = token[i] \/ token'[i] = k
    BY <1>0, <2>2 DEF LoginTypes
  <2>6. TokensDiffer'
    BY <1>0, <2>2, <2>3, <2>4, <2>5 DEF TokensDiffer, LoginRuns
  <2>7. ASSUME NEW u \in Thread, loginOp'[u].do = "setToken"
        PROVE  /\ loginOp'[u].token \notin revoked'
               /\ \A i \in Logins!Session : token'[i] # loginOp'[u].token
    <3>1. u # t /\ loginOp'[u] = loginOp[u] /\ LoginRuns(u) /\ LoginRuns(t)
      BY <2>0, <2>3, <2>7 DEF LoginRuns, LoginSteps
    <3>2. loginOp[u].token # k
      BY <1>0, <2>1, <3>1 DEF TokensDiffer
    <3> QED
      BY <1>0, <2>2, <2>5, <2>7, <3>1, <3>2 DEF UnstoredIsNew
  <2> QED
    BY <1>k, <2>2, <2>6, <2>7 DEF UnstoredIsNew
<1>6. ASSUME NEW t \in Thread, Logins!delOnlineKey(t)
      PROVE  TokensDiffer' /\ UnstoredIsNew' /\ RevokedIsGone'
  <2>0. loginOp[t].do = "delOnline" /\ loginOp[t] \in LoginOp
    BY <1>0, <1>6 DEF Logins!delOnlineKey, Logins!Does
  <2>1. PICK n : n = [loginOp[t] EXCEPT !.do = "delToken"]
    OBVIOUS
  <2>2. n \in LoginOp /\ n.do = "delToken" /\ n.do \notin LoginSteps
    BY <2>0, <2>1, LogoutAdvances DEF LoginSteps
  <2>3. Logins!Then(t, n) /\ UNCHANGED <<store, tokens, token, revoked>>
    BY <1>6, <2>1 DEF Logins!delOnlineKey, Logins!session, Logins!history
  <2> QED
    BY <1>0, <1>k, <2>2, <2>3, TokenKept
<1>7. ASSUME NEW t \in Thread, Logins!delTokenKey(t)
      PROVE  TokensDiffer' /\ UnstoredIsNew' /\ RevokedIsGone'
  <2>0. loginOp[t].do = "delToken" /\ loginOp[t] \in LoginOp
    BY <1>0, <1>7 DEF Logins!delTokenKey, Logins!Does
  <2>1. PICK s \in Logins!Session : s = loginOp[t].session
    BY <2>0, LogoutAdvances
  <2>2. PICK k \in Nat : k = token[s]
    BY <1>0, <2>1 DEF LoginTypes
  <2>3. loginOp' = [loginOp EXCEPT ![t] = Logins!Idle] /\ UNCHANGED <<tokens, token>>
    BY <1>7 DEF Logins!delTokenKey, Logins!Then, Logins!session
  <2>4. CASE UNCHANGED <<store, revoked>>
    BY <1>0, <1>k, <2>3, <2>4, TokenKept, IdleLogin DEF Logins!Then
  <2>5. CASE k # Logins!NoToken /\ store' = [store EXCEPT ![k] = Logins!Nobody]
             /\ revoked' = revoked \union {k}
    <3>1. k \in 1..tokens /\ k \in 1..MaxToken
      BY <1>0, <2>1, <2>2, <2>5 DEF TokensDiffer, Logins!NoToken
    <3>2. \A u \in Thread : LoginRuns(u)' => LoginRuns(u) /\ u # t
      BY <1>0, <2>3, IdleLogin DEF LoginRuns
    <3>3. \A u \in Thread \ {t} : loginOp'[u] = loginOp[u]
      BY <1>0, <2>3
    <3>4. TokensDiffer'
      <4>1. revoked' \subseteq 1..tokens'
        BY <1>0, <2>3, <2>5, <3>1 DEF TokensDiffer
      <4> QED
        BY <1>0, <2>3, <3>2, <3>3, <4>1 DEF TokensDiffer
    <3>5. ASSUME NEW u \in Thread, loginOp'[u].do = "setToken"
          PROVE  /\ loginOp'[u].token \notin revoked'
                 /\ \A i \in Logins!Session : token'[i] # loginOp'[u].token
      <4>1. u # t /\ loginOp'[u] = loginOp[u]
        BY <3>2, <3>3, <3>5 DEF LoginRuns, LoginSteps
      <4> QED
        BY <1>0, <2>2, <2>3, <2>5, <3>5, <4>1 DEF UnstoredIsNew
    <3>6. RevokedIsGone'
      BY <1>0, <2>5, <3>1 DEF RevokedIsGone, LoginTypes
    <3> QED
      BY <3>4, <3>5, <3>6 DEF UnstoredIsNew
  <2> QED
    BY <1>7, <2>1, <2>2, <2>4, <2>5 DEF Logins!delTokenKey
<1>8. CASE Logins!acquire
  BY <1>0, <1>8 DEF Logins!acquire, Logins!redis, Logins!session, TokensDiffer, UnstoredIsNew,
     RevokedIsGone, LoginRuns
<1>9. ASSUME NEW s \in Logins!Session, Logins!release(s)
      PROVE  TokensDiffer' /\ UnstoredIsNew' /\ RevokedIsGone'
  <2>1. token' = [token EXCEPT ![s] = 0] /\ UNCHANGED <<store, tokens, loginOp, revoked>>
    BY <1>9 DEF Logins!release, Logins!NoToken, Logins!redis
  <2>2. \A i \in Logins!Session : token'[i] = token[i] \/ token'[i] = 0
    BY <1>0, <2>1 DEF LoginTypes
  <2>3. TokensDiffer'
    BY <1>0, <2>1, <2>2 DEF TokensDiffer, LoginRuns
  <2>4. \A t \in Thread : loginOp[t].do = "setToken" => loginOp[t].token # 0
    <3>1. ASSUME NEW t \in Thread, loginOp[t].do = "setToken" PROVE loginOp[t].token # 0
      <4>1. loginOp[t] \in LoginOp /\ loginOp[t].do \in LoginSteps
        BY <1>0, <3>1 DEF LoginSteps
      <4> QED
        BY <4>1, LoginAdvances
    <3> QED
      BY <3>1
  <2>5. UnstoredIsNew'
    BY <1>0, <2>1, <2>2, <2>4 DEF UnstoredIsNew
  <2> QED
    BY <1>k, <2>1, <2>3, <2>5
<1>10. CASE Logins!Expire
  <2>1. UNCHANGED <<tokens, token, loginOp, revoked>>
    BY <1>10 DEF Logins!Expire, Logins!session, Logins!history
  <2>2. TokensDiffer' /\ UnstoredIsNew'
    BY <1>0, <2>1 DEF TokensDiffer, UnstoredIsNew, LoginRuns
  <2>3. CASE UNCHANGED store
    BY <1>k, <2>1, <2>2, <2>3
  <2>4. ASSUME NEW k \in 1..tokens, store' = [store EXCEPT ![k] = Logins!Nobody]
        PROVE  RevokedIsGone'
    BY <1>0, <2>1, <2>4 DEF RevokedIsGone, LoginTypes, TokensDiffer
  <2> QED
    BY <1>10, <2>2, <2>3, <2>4 DEF Logins!Expire
<1>11. CASE UNCHANGED Logins!vars
  BY <1>0, <1>11 DEF Logins!vars, Logins!redis, Logins!session, Logins!history, TokensDiffer,
     UnstoredIsNew, RevokedIsGone, LoginRuns
<1> QED
  BY <1>1, <1>2, <1>3, <1>4, <1>5, <1>6, <1>7, <1>8, <1>9, <1>10, <1>11 DEF Logins!Next

\* The types hold when the server starts.
LEMMA LoginTypesInit == ASSUME Logins!Init PROVE LoginTypes
<1>1. /\ tokens \in 0..MaxToken /\ DOMAIN store = 1..MaxToken
      /\ DOMAIN player = Logins!Session /\ token \in [Logins!Session -> Nat]
      /\ DOMAIN tenant = Logins!Session /\ nextId_ \in Nat
  BY LoginAssumption DEF Logins!Init, Logins!NoToken
<1>2. pool_ \in Seq(Nat)
  BY LoginAssumption DEF Logins!Init
<1>3. loginOp \in [Thread -> LoginOp]
  BY IdleLogin DEF Logins!Init
<1> QED
  BY <1>1, <1>2, <1>3 DEF LoginTypes

\* A token that a logout deleted is never valid again, for any number of
\* threads, accounts and sessions.
THEOREM LogoutKillsTokens == Logins!Spec => []LogoutRevokes
<1>1. Logins!Init => TokenInv
  <2> SUFFICES ASSUME Logins!Init PROVE TokenInv
    OBVIOUS
  <2>1. LoginTypes
    BY LoginTypesInit
  <2>2. \A t \in Thread : ~LoginRuns(t) /\ loginOp[t].do # "setToken"
    BY IdleLogin DEF Logins!Init, LoginRuns
  <2>3. revoked = {} /\ tokens = 0 /\ \A s \in Logins!Session : token[s] = 0
    BY DEF Logins!Init, Logins!NoToken
  <2> QED
    BY <2>1, <2>2, <2>3 DEF TokenInv, TokensDiffer, UnstoredIsNew, RevokedIsGone
<1>2. TokenInv /\ [Logins!Next]_(Logins!vars) => TokenInv'
  BY LoginTypesStep, TokenStep DEF TokenInv
<1>3. TokenInv => LogoutRevokes
  BY LoginAssumption DEF TokenInv, RevokedIsGone, LogoutRevokes, Logins!LogoutRevokes,
     Logins!verifyToken
<1> QED
  BY <1>1, <1>2, <1>3, PTL DEF Logins!Spec

-----------------------------------------------------------------------------
\* Every step keeps the sessions with their own players.
LEMMA IdentityStep ==
  ASSUME LoginInv, [Logins!Next]_(Logins!vars)
  PROVE  LoginsHoldSessions' /\ IdentityOwn'
<1>0. /\ LoginTypes /\ LoginsHoldSessions /\ IdentityOwn /\ loginOp \in [Thread -> LoginOp]
      /\ MaxSession \in Nat /\ Logins!Session = 1..MaxSession
  BY LoginAssumption DEF LoginInv, LoginTypes, Logins!Session
\* Steps of requests other than the end of a login.
<1>k. ASSUME UNCHANGED <<player, tenant, pool_, nextId_, overlap>>
      PROVE  IdentityOwn' /\ Logins!Acquired' = Logins!Acquired
  BY <1>0, <1>k DEF IdentityOwn, Logins!IdentityOwn, Logins!Acquired, Logins!Pooled
<1>m. ASSUME UNCHANGED <<player, tenant, pool_, nextId_, overlap>>, NEW t \in Thread, NEW n,
             loginOp' = [loginOp EXCEPT ![t] = n],
             n.do \in LoginSteps => n.session \in Logins!Acquired \union overlap
      PROVE  LoginsHoldSessions' /\ IdentityOwn'
  BY <1>0, <1>k, <1>m DEF LoginsHoldSessions, LoginRuns
<1>1. ASSUME NEW t \in Thread, NEW s \in Logins!Session, NEW a \in Player,
             Logins!handleLogin(t, s, a)
      PROVE  LoginsHoldSessions' /\ IdentityOwn'
  <2>1. PICK n : /\ n.session = s /\ loginOp' = [loginOp EXCEPT ![t] = n]
    BY <1>1 DEF Logins!handleLogin, Logins!Then
  <2>2. s \in Logins!Acquired /\ UNCHANGED <<player, tenant, pool_, nextId_, overlap>>
    BY <1>1 DEF Logins!handleLogin, Logins!session, Logins!pool, Logins!history
  <2> QED
    BY <1>m, <2>1, <2>2
<1>2. ASSUME NEW t \in Thread, NEW s \in Logins!Session, Logins!handleLogout(t, s)
      PROVE  LoginsHoldSessions' /\ IdentityOwn'
  <2>1. PICK n : /\ n.do \notin LoginSteps /\ loginOp' = [loginOp EXCEPT ![t] = n]
    BY <1>2 DEF Logins!handleLogout, Logins!Then, LoginSteps
  <2>2. UNCHANGED <<player, tenant, pool_, nextId_, overlap>>
    BY <1>2 DEF Logins!handleLogout, Logins!session, Logins!pool, Logins!history
  <2> QED
    BY <1>m, <2>1, <2>2
<1>3. ASSUME NEW t \in Thread, NEW d \in LoginSteps, LoginRuns(t),
             Logins!Then(t, [loginOp[t] EXCEPT !.do = d]),
             UNCHANGED <<player, tenant, pool_, nextId_, overlap>>
      PROVE  LoginsHoldSessions' /\ IdentityOwn'
  <2>1. PICK n : n = [loginOp[t] EXCEPT !.do = d]
    OBVIOUS
  <2>2. n.session = loginOp[t].session
    BY <1>0, <1>3, <2>1, LoginAdvances DEF LoginRuns
  <2>3. n.session \in Logins!Acquired \union overlap
    BY <1>0, <1>3, <2>2 DEF LoginsHoldSessions
  <2> QED
    BY <1>3, <1>m, <2>1, <2>3 DEF Logins!Then
<1>4. ASSUME NEW t \in Thread, Logins!setTokenKey(t) PROVE LoginsHoldSessions' /\ IdentityOwn'
  BY <1>3, <1>4 DEF Logins!setTokenKey, Logins!Does, LoginRuns, LoginSteps, Logins!session,
     Logins!pool, Logins!history
<1>5. ASSUME NEW t \in Thread, Logins!setOnlineKey(t) PROVE LoginsHoldSessions' /\ IdentityOwn'
  BY <1>3, <1>5 DEF Logins!setOnlineKey, Logins!Does, LoginRuns, LoginSteps, Logins!session,
     Logins!pool, Logins!history
<1>6. ASSUME NEW t \in Thread, Logins!finishLogin(t) PROVE LoginsHoldSessions' /\ IdentityOwn'
  <2>0. loginOp[t].do \in LoginSteps /\ loginOp[t] \in LoginOp
    BY <1>0, <1>6 DEF Logins!finishLogin, Logins!Does, LoginSteps
  <2>1. PICK a \in Player, s \in Logins!Session : a = loginOp[t].account /\ s = loginOp[t].session
    BY <2>0, LoginAdvances
  <2>2. /\ player' = [player EXCEPT ![s] = a] /\ tenant' = [tenant EXCEPT ![s] = a]
        /\ loginOp' = [loginOp EXCEPT ![t] = Logins!Idle] /\ UNCHANGED <<pool_, nextId_, overlap>>
    BY <1>6, <2>1 DEF Logins!finishLogin, Logins!Then, Logins!pool
  <2>3. s \in Logins!Acquired \union overlap
    BY <1>0, <2>0, <2>1 DEF LoginsHoldSessions, LoginRuns
  <2>4. Logins!Acquired' = Logins!Acquired
    BY <2>2 DEF Logins!Acquired, Logins!Pooled
  <2>5. /\ player'[s] = a /\ tenant'[s] = a
        /\ \A i \in Logins!Session \ {s} : player'[i] = player[i] /\ tenant'[i] = tenant[i]
    BY <1>0, <2>2 DEF LoginTypes
  <2>6. IdentityOwn'
    BY <1>0, <2>2, <2>3, <2>4, <2>5 DEF IdentityOwn, Logins!IdentityOwn
  <2>7. LoginsHoldSessions'
    BY <1>0, <2>2, <2>4, IdleLogin DEF LoginsHoldSessions, LoginRuns
  <2> QED
    BY <2>6, <2>7
<1>7. ASSUME NEW t \in Thread, Logins!delOnlineKey(t) PROVE LoginsHoldSessions' /\ IdentityOwn'
  <2>0. loginOp[t].do = "delOnline" /\ loginOp[t] \in LoginOp
    BY <1>0, <1>7 DEF Logins!delOnlineKey, Logins!Does
  <2>1. PICK n : n = [loginOp[t] EXCEPT !.do = "delToken"]
    OBVIOUS
  <2>2. n.do \notin LoginSteps
    BY <2>0, <2>1, LogoutAdvances DEF LoginSteps
  <2> QED
    BY <1>7, <1>m, <2>1, <2>2
       DEF Logins!delOnlineKey, Logins!Then, Logins!session, Logins!pool, Logins!history
<1>8. ASSUME NEW t \in Thread, Logins!delTokenKey(t) PROVE LoginsHoldSessions' /\ IdentityOwn'
  BY <1>8, <1>m, IdleLogin DEF Logins!delTokenKey, Logins!Then, Logins!session, Logins!pool
<1>9. CASE Logins!acquire
  <2>1. PICK s \in Nat : /\ s \notin Logins!Acquired
                         /\ tenant' = [tenant EXCEPT ![s] = Logins!Nobody]
                         /\ \A i \in Nat \ {s} : i \in Logins!Acquired' <=> i \in Logins!Acquired
    BY <1>0, <1>9, PoolStep
  <2>2. UNCHANGED <<player, loginOp, overlap>>
    BY <1>9 DEF Logins!acquire, Logins!session
  <2>3. Logins!Acquired \subseteq Logins!Acquired'
    <3>1. Logins!Acquired \subseteq Nat
      BY <1>0 DEF Logins!Acquired, LoginTypes
    <3> QED
      BY <2>1, <3>1
  <2>4. LoginsHoldSessions'
    BY <1>0, <2>2, <2>3 DEF LoginsHoldSessions, LoginRuns
  <2>5. ASSUME NEW i \in Logins!Session \ overlap
        PROVE  player[i] = IF i \in Logins!Acquired' THEN tenant'[i] ELSE Logins!Nobody
    <3>1. i \in Nat /\ player[i] = IF i \in Logins!Acquired THEN tenant[i] ELSE Logins!Nobody
      BY <1>0 DEF IdentityOwn, Logins!IdentityOwn
    <3>2. CASE i = s
      BY <1>0, <2>1, <3>1, <3>2 DEF LoginTypes
    <3>3. CASE i # s
      BY <1>0, <2>1, <3>1, <3>3 DEF LoginTypes
    <3> QED
      BY <3>2, <3>3
  <2>6. IdentityOwn'
    BY <2>2, <2>5 DEF IdentityOwn, Logins!IdentityOwn
  <2> QED
    BY <2>4, <2>6
<1>10. ASSUME NEW s \in Logins!Session, Logins!release(s) PROVE LoginsHoldSessions' /\ IdentityOwn'
  <2>1. /\ s \in Nat /\ s \notin Logins!Acquired'
        /\ \A i \in Nat \ {s} : i \in Logins!Acquired' <=> i \in Logins!Acquired
    BY <1>0, <1>10, ReleaseStep
  <2>2. /\ player' = [player EXCEPT ![s] = Logins!Nobody] /\ UNCHANGED <<loginOp, tenant>>
        /\ overlap' = IF Logins!LoggingIn(s) THEN overlap \union {s} ELSE overlap
    BY <1>10 DEF Logins!release
  <2>3. ASSUME NEW t \in Thread, LoginRuns(t)
        PROVE  loginOp[t].session \in Logins!Acquired' \union overlap'
    <3>1. loginOp[t].session \in Logins!Acquired \union overlap /\ loginOp[t].session \in Nat
      <4>1. loginOp[t] \in LoginOp /\ loginOp[t].do \in LoginSteps
        BY <1>0, <2>3 DEF LoginRuns
      <4>2. loginOp[t].session \in Logins!Session
        BY <4>1, LoginAdvances
      <4> QED
        BY <1>0, <2>3, <4>2 DEF LoginsHoldSessions
    <3>2. CASE loginOp[t].session = s
      <4>1. loginOp[t] # Logins!Idle
        BY <2>3, IdleLogin DEF LoginRuns
      <4>2. Logins!LoggingIn(s)
        BY <2>3, <3>2, <4>1 DEF Logins!LoggingIn, Logins!Uses, LoginRuns, LoginSteps
      <4> QED
        BY <2>2, <3>2, <4>2
    <3>3. CASE loginOp[t].session # s
      BY <2>1, <2>2, <3>1, <3>3
    <3> QED
      BY <3>2, <3>3
  <2>4. LoginsHoldSessions'
    BY <2>2, <2>3 DEF LoginsHoldSessions, LoginRuns
  <2>5. ASSUME NEW i \in Logins!Session \ overlap'
        PROVE  player'[i] = IF i \in Logins!Acquired' THEN tenant'[i] ELSE Logins!Nobody
    <3>1. CASE i = s
      BY <1>0, <2>1, <2>2, <3>1 DEF LoginTypes
    <3>2. CASE i # s
      <4>1. i \notin overlap /\ i \in Nat
        BY <1>0, <2>2
      <4>2. player[i] = IF i \in Logins!Acquired THEN tenant[i] ELSE Logins!Nobody
        BY <1>0, <4>1 DEF IdentityOwn, Logins!IdentityOwn
      <4>3. player'[i] = player[i]
        BY <1>0, <2>2, <3>2 DEF LoginTypes
      <4> QED
        BY <2>1, <2>2, <3>2, <4>1, <4>2, <4>3
    <3> QED
      BY <3>1, <3>2
  <2>6. IdentityOwn'
    BY <2>5 DEF IdentityOwn, Logins!IdentityOwn
  <2> QED
    BY <2>4, <2>6
<1>11. CASE Logins!Expire
  BY <1>0, <1>11, <1>k DEF Logins!Expire, LoginsHoldSessions, LoginRuns, Logins!session,
     Logins!pool, Logins!history
<1>12. CASE UNCHANGED Logins!vars
  BY <1>0, <1>12, <1>k DEF Logins!vars, LoginsHoldSessions, LoginRuns, Logins!session,
     Logins!pool, Logins!history
<1> QED
  BY <1>1, <1>2, <1>4, <1>5, <1>6, <1>7, <1>8, <1>9, <1>10, <1>11, <1>12 DEF Logins!Next

\* A session has no player but the one who logged in on it since it was
\* acquired, unless it was released under a login, for any size of the pool.
THEOREM SessionsKeepNoStranger == Logins!Spec => []IdentityOwn
<1>1. Logins!Init => LoginInv
  <2> SUFFICES ASSUME Logins!Init PROVE LoginInv
    OBVIOUS
  <2>1. LoginTypes
    BY LoginTypesInit
  <2>2. LoginsHoldSessions
    BY IdleLogin DEF Logins!Init, LoginsHoldSessions, LoginRuns
  <2>3. IdentityOwn
    BY DEF Logins!Init, IdentityOwn, Logins!IdentityOwn
  <2> QED
    BY <2>1, <2>2, <2>3 DEF LoginInv
<1>2. LoginInv /\ [Logins!Next]_(Logins!vars) => LoginInv'
  BY LoginTypesStep, IdentityStep DEF LoginInv
<1>3. LoginInv => IdentityOwn
  BY DEF LoginInv
<1> QED
  BY <1>1, <1>2, <1>3, PTL DEF Logins!Spec

-----------------------------------------------------------------------------
(* Teams. *)

\* The requests that are about to insert a member of team g.
Inserting(g) == { t \in Thread : teamOp[t].do = "insert" /\ teamOp[t].team = g }

\* What a request about teams may do next.
TeamOp ==
  {Teams!Idle} \union [do : {"insert", "transfer"}, team : Teams!Id, role : Member]
  \union [do : {"succeed", "dissolve"}, team : Teams!Id]

\* The tables and requests of the teams.
TeamTypes ==
  /\ DOMAIN status = Teams!Id
  /\ member \in [Teams!Id -> SUBSET Member]
  /\ teamOp \in [Thread -> TeamOp]

\* A team that is not in the table has no member, and nobody is about to join it.
AbsentIsEmpty ==
  \A g \in Teams!Id : status[g] = "none" => member[g] = {} /\ Inserting(g) = {}

\* The members and those about to join are bounded together.
OverfullBound ==
  \A g \in Teams!Id :
    /\ IsFiniteSet(member[g])
    /\ Cardinality(member[g]) + Cardinality(Inserting(g)) < Limit + Cardinality(Thread)

\* The inductive invariant of the teams.
TeamInv == TeamTypes /\ AbsentIsEmpty /\ OverfullBound

\* The operator of the module Team is the one of the library.
LEMMA TeamCardinality ==
  ASSUME NEW S PROVE Teams!Cardinality(S) = Cardinality(S)
  BY DEF Teams!Cardinality, Cardinality

\* Any number of threads may be about to join.
LEMMA InsertingBound ==
  ASSUME NEW S, S \subseteq Thread
  PROVE  /\ IsFiniteSet(S) /\ Cardinality(S) \in Nat /\ Cardinality(Thread) \in Nat
         /\ Cardinality(S) <= Cardinality(Thread)
  BY TeamAssumption, FS_Subset, FS_CardinalityType

\* Every step keeps the types.
LEMMA TeamTypesStep ==
  ASSUME TeamTypes, [Teams!Next]_(Teams!vars)
  PROVE  TeamTypes'
<1> USE DEF TeamTypes, TeamOp, Teams!Idle, Teams!Then
<1>1. ASSUME UNCHANGED <<status, member, teamOp>> PROVE TeamTypes'
  BY <1>1
<1>2. ASSUME NEW t \in Thread, Teams!insertMember(t) PROVE TeamTypes'
  <2>1. teamOp[t] \in [do : {"insert", "transfer"}, team : Teams!Id, role : Member]
    BY <1>2 DEF Teams!insertMember, Teams!Does
  <2> QED
    BY <1>2, <2>1 DEF Teams!insertMember
<1>3. ASSUME NEW t \in Thread, Teams!selectSuccessor(t) PROVE TeamTypes'
  <2>1. teamOp[t] \in [do : {"succeed", "dissolve"}, team : Teams!Id]
    BY <1>3 DEF Teams!selectSuccessor, Teams!Does
  <2> QED
    BY <1>3, <2>1 DEF Teams!selectSuccessor, Teams!tables
<1>4. ASSUME NEW t \in Thread, Teams!replaceLeader(t) PROVE TeamTypes'
  BY <1>4 DEF Teams!replaceLeader
<1>5. ASSUME NEW t \in Thread, NEW r \in Member, Teams!createTeam(t, r) PROVE TeamTypes'
  BY <1>5 DEF Teams!createTeam
<1>6. ASSUME NEW t \in Thread, NEW r \in Member, Teams!leaveTeam(t, r) PROVE TeamTypes'
  <2>1. PICK g \in Teams!Id :
          /\ member' \in {member, [member EXCEPT ![g] = @ \ {r}]}
          /\ \/ Teams!Then(t, [do |-> "succeed", team |-> g]) \/ Teams!Then(t, Teams!Idle)
    BY <1>6 DEF Teams!leaveTeam, Teams!getTeamByRole
  <2> QED
    BY <1>6, <2>1 DEF Teams!leaveTeam
<1>7. ASSUME NEW t \in Thread, NEW r \in Member, NEW g \in Teams!Id, Teams!joinTeam(t, r, g)
      PROVE  TeamTypes'
  BY <1>7 DEF Teams!joinTeam, Teams!tables
<1>8. ASSUME NEW t \in Thread, NEW r \in Member, NEW k \in Member, Teams!kickMember(t, r, k)
      PROVE  TeamTypes'
  BY <1>8 DEF Teams!kickMember, Teams!getTeamByRole
<1> QED
  BY <1>1, <1>2, <1>3, <1>4, <1>5, <1>6, <1>7, <1>8
     DEF Teams!Next, Teams!vars, Teams!tables, Teams!managerCreateTeam, Teams!dissolveTeam,
         Teams!addMember, Teams!removeMember

\* A step that adds no member and nobody about to join keeps the bounds.
LEMMA Shrinks ==
  ASSUME TeamInv, TeamTypes', 
         \A g \in Teams!Id : /\ member'[g] \subseteq member[g]
                             /\ Inserting(g)' \subseteq Inserting(g)
                             /\ status'[g] = "none" => status[g] = "none"
  PROVE  AbsentIsEmpty' /\ OverfullBound'
<1>1. AbsentIsEmpty'
  BY DEF TeamInv, AbsentIsEmpty
<1>2. ASSUME NEW g \in Teams!Id
      PROVE  /\ IsFiniteSet(member'[g])
             /\ Cardinality(member'[g]) + Cardinality(Inserting(g)') < Limit + Cardinality(Thread)
  <2>1. /\ IsFiniteSet(member[g]) /\ member'[g] \subseteq member[g]
        /\ Cardinality(member[g]) + Cardinality(Inserting(g)) < Limit + Cardinality(Thread)
    BY DEF TeamInv, OverfullBound
  <2>2. /\ IsFiniteSet(member'[g]) /\ Cardinality(member'[g]) <= Cardinality(member[g])
        /\ Cardinality(member'[g]) \in Nat /\ Cardinality(member[g]) \in Nat
    BY <2>1, FS_Subset, FS_CardinalityType
  <2>3. /\ IsFiniteSet(Inserting(g)) /\ Cardinality(Thread) \in Nat
    BY InsertingBound DEF Inserting
  <2>4. /\ Cardinality(Inserting(g)') <= Cardinality(Inserting(g))
        /\ Cardinality(Inserting(g)') \in Nat /\ Cardinality(Inserting(g)) \in Nat
    BY <2>3, FS_Subset, FS_CardinalityType
  <2> QED
    BY <2>1, <2>2, <2>3, <2>4, TeamAssumption
<1> QED
  BY <1>1, <1>2 DEF OverfullBound

\* A team counted short of its limit has room for every thread.
LEMMA Room ==
  ASSUME TeamInv, NEW g \in Teams!Id, NEW S, S \subseteq Thread,
         Cardinality(member[g]) < Limit
  PROVE  Cardinality(member[g]) + Cardinality(S) < Limit + Cardinality(Thread)
<1>1. IsFiniteSet(member[g]) /\ Cardinality(member[g]) \in Nat
  BY FS_CardinalityType DEF TeamInv, OverfullBound
<1> QED
  BY <1>1, InsertingBound, TeamAssumption

\* A request that sets out to join team g.
LEMMA JoinStep ==
  ASSUME TeamInv, TeamTypes', NEW t \in Thread, NEW g \in Teams!Id, NEW r \in Member,
         teamOp[t] = Teams!Idle, Cardinality(member[g]) < Limit, status'[g] # "none",
         teamOp' = [teamOp EXCEPT ![t] = [do |-> "insert", team |-> g, role |-> r]],
         UNCHANGED member,
         \A h \in Teams!Id : status'[h] = "none" => status[h] = "none"
  PROVE  AbsentIsEmpty' /\ OverfullBound'
<1>1. ASSUME NEW h \in Teams!Id \ {g} PROVE Inserting(h)' = Inserting(h)
  BY DEF Inserting, TeamInv, TeamTypes, Teams!Idle
<1>2. AbsentIsEmpty'
  BY <1>1 DEF TeamInv, AbsentIsEmpty
<1>3. Inserting(g)' \subseteq Thread
  BY DEF Inserting
<1>4. Cardinality(member[g]) + Cardinality(Inserting(g)') < Limit + Cardinality(Thread)
  BY <1>3, Room
<1>5. OverfullBound'
  BY <1>1, <1>4 DEF TeamInv, OverfullBound
<1> QED
  BY <1>2, <1>5

\* The INSERT of a member: one more in the team, one fewer about to join.
LEMMA InsertStep ==
  ASSUME TeamInv, TeamTypes', NEW t \in Thread, Teams!insertMember(t)
  PROVE  AbsentIsEmpty' /\ OverfullBound'
<1>0. /\ teamOp[t].do = "insert" /\ UNCHANGED status
      /\ teamOp' = [teamOp EXCEPT ![t] = Teams!Idle]
  BY DEF Teams!insertMember, Teams!Does, Teams!Then
<1>1. PICK g \in Teams!Id : g = teamOp[t].team
  BY <1>0 DEF TeamInv, TeamTypes, TeamOp, Teams!Idle
<1>2. Inserting(g)' = Inserting(g) \ {t} /\ t \in Inserting(g)
  BY <1>0, <1>1 DEF Inserting, TeamInv, TeamTypes, Teams!Idle
<1>3. ASSUME NEW h \in Teams!Id \ {g} PROVE Inserting(h)' = Inserting(h)
  BY <1>0, <1>1 DEF Inserting, TeamInv, TeamTypes, Teams!Idle
<1>4. CASE member' = member
  <2>1. \A h \in Teams!Id : Inserting(h)' \subseteq Inserting(h)
    BY <1>2, <1>3
  <2> QED
    BY <1>0, <1>4, <2>1, Shrinks
<1>5. CASE member' = [member EXCEPT ![g] = @ \union {teamOp[t].role}]
  <2>1. /\ member'[g] = member[g] \union {teamOp[t].role}
        /\ \A h \in Teams!Id \ {g} : member'[h] = member[h]
    BY <1>5 DEF TeamInv, TeamTypes
  <2>2. status[g] # "none"
    BY <1>2 DEF TeamInv, AbsentIsEmpty
  <2>3. AbsentIsEmpty'
    BY <1>0, <1>3, <2>1, <2>2 DEF TeamInv, AbsentIsEmpty
  <2>4. /\ IsFiniteSet(member[g]) /\ Cardinality(member[g]) \in Nat
        /\ Cardinality(member[g]) + Cardinality(Inserting(g)) < Limit + Cardinality(Thread)
    BY FS_CardinalityType DEF TeamInv, OverfullBound
  <2>5. /\ IsFiniteSet(member'[g]) /\ Cardinality(member'[g]) \in Nat
        /\ Cardinality(member'[g]) <= Cardinality(member[g]) + 1
    <3>1. PICK S : S = member[g]
      OBVIOUS
    <3>2. PICK r : r = teamOp[t].role
      OBVIOUS
    <3>3. /\ IsFiniteSet(S \union {r}) /\ Cardinality(S) \in Nat
          /\ Cardinality(S \union {r}) = Cardinality(S)
             \/ Cardinality(S \union {r}) = Cardinality(S) + 1
      BY <2>4, <3>1, FS_AddElement
    <3>4. member'[g] = S \union {r}
      BY <2>1, <3>1, <3>2
    <3>5. Cardinality(member'[g]) \in Nat
      BY <3>3, <3>4
    <3> QED
      BY <3>1, <3>3, <3>4, <3>5
  <2>6. /\ Cardinality(Inserting(g)') = Cardinality(Inserting(g)) - 1
        /\ Cardinality(Inserting(g)) \in Nat /\ Cardinality(Thread) \in Nat
    <3>1. /\ IsFiniteSet(Inserting(g)) /\ Cardinality(Inserting(g)) \in Nat
          /\ Cardinality(Thread) \in Nat
      BY InsertingBound DEF Inserting
    <3> QED
      BY <1>2, <3>1, FS_RemoveElement
  <2>7. Cardinality(member'[g]) + Cardinality(Inserting(g)') < Limit + Cardinality(Thread)
    BY <2>4, <2>5, <2>6, TeamAssumption
  <2>8. OverfullBound'
    BY <1>3, <2>1, <2>5, <2>7 DEF TeamInv, OverfullBound
  <2> QED
    BY <2>3, <2>8
<1> QED
  BY <1>1, <1>4, <1>5 DEF Teams!insertMember

\* A team has at most one role too many for each of the other threads, for any
\* limit, any number of threads and any number of roles.
THEOREM TeamsOverfillByOverlap == Teams!Spec => []OverfullByOverlap
<1>1. Teams!Init => TeamInv
  <2> SUFFICES ASSUME Teams!Init PROVE TeamInv
    OBVIOUS
  <2>1. TeamTypes
    BY DEF Teams!Init, TeamTypes, TeamOp
  <2>2. \A g \in Teams!Id : member[g] = {} /\ Inserting(g) = {}
    BY DEF Teams!Init, Inserting, Teams!Idle
  <2>3. Cardinality(Thread) \in Nat /\ Cardinality({}) = 0 /\ IsFiniteSet({})
    BY TeamAssumption, FS_CardinalityType, FS_EmptySet
  <2>4. AbsentIsEmpty
    BY <2>2 DEF AbsentIsEmpty
  <2>5. ASSUME NEW g \in Teams!Id
        PROVE  Cardinality(member[g]) + Cardinality(Inserting(g)) < Limit + Cardinality(Thread)
    <3>1. Cardinality(member[g]) = 0 /\ Cardinality(Inserting(g)) = 0
      BY <2>2, <2>3
    <3> QED
      BY <2>3, <3>1, TeamAssumption
  <2>6. OverfullBound
    BY <2>2, <2>3, <2>5 DEF OverfullBound
  <2> QED
    BY <2>1, <2>4, <2>6 DEF TeamInv
<1>2. TeamInv /\ [Teams!Next]_(Teams!vars) => TeamInv'
  <2> SUFFICES ASSUME TeamInv, [Teams!Next]_(Teams!vars) PROVE AbsentIsEmpty' /\ OverfullBound'
    BY TeamTypesStep DEF TeamInv
  <2>0. TeamTypes /\ TeamTypes'
    BY TeamTypesStep DEF TeamInv
  <2>1. ASSUME UNCHANGED <<status, member, teamOp>> PROVE AbsentIsEmpty' /\ OverfullBound'
    BY <2>0, <2>1, Shrinks DEF Inserting
  <2>2. ASSUME NEW t \in Thread, Teams!insertMember(t) PROVE AbsentIsEmpty' /\ OverfullBound'
    BY <2>0, <2>2, InsertStep
  <2>3. ASSUME NEW t \in Thread, NEW next \in TeamOp, next.do # "insert",
               teamOp' = [teamOp EXCEPT ![t] = next]
        PROVE  \A g \in Teams!Id : Inserting(g)' \subseteq Inserting(g)
    BY <2>0, <2>3 DEF Inserting, TeamTypes
  <2>4. ASSUME NEW t \in Thread, Teams!selectSuccessor(t) PROVE AbsentIsEmpty' /\ OverfullBound'
    <3>1. teamOp[t].do = "succeed" /\ UNCHANGED <<status, member>>
      BY <2>4 DEF Teams!selectSuccessor, Teams!Does, Teams!tables
    <3>2. PICK g \in Teams!Id : g = teamOp[t].team
      BY <2>0, <3>1 DEF TeamTypes, TeamOp, Teams!Idle
    <3>3. \E next \in TeamOp : next.do # "insert" /\ teamOp' = [teamOp EXCEPT ![t] = next]
      <4>1. CASE teamOp' = [teamOp EXCEPT ![t] = [do |-> "dissolve", team |-> g]]
        <5>1. [do |-> "dissolve", team |-> g] \in TeamOp
          BY DEF TeamOp
        <5> QED
          BY <4>1, <5>1
      <4>2. ASSUME NEW r \in member[g],
                   teamOp' = [teamOp EXCEPT ![t] = [do |-> "transfer", team |-> g, role |-> r]]
            PROVE  \E next \in TeamOp : next.do # "insert" /\ teamOp' = [teamOp EXCEPT ![t] = next]
        <5>1. [do |-> "transfer", team |-> g, role |-> r] \in TeamOp
          BY <2>0, <4>2 DEF TeamOp, TeamTypes
        <5> QED
          BY <4>2, <5>1
      <4> QED
        BY <2>4, <3>2, <4>1, <4>2 DEF Teams!selectSuccessor, Teams!Then
    <3> QED
      BY <2>0, <2>3, <3>1, <3>3, Shrinks
  <2>5. Teams!Idle \in TeamOp /\ Teams!Idle.do # "insert"
    BY DEF TeamOp, Teams!Idle
  <2>6. ASSUME NEW t \in Thread, Teams!replaceLeader(t) PROVE AbsentIsEmpty' /\ OverfullBound'
    <3>1. \A g \in Teams!Id : Inserting(g)' \subseteq Inserting(g)
      BY <2>3, <2>5, <2>6 DEF Teams!replaceLeader, Teams!Then
    <3>2. UNCHANGED member /\ \A g \in Teams!Id : status'[g] = "none" => status[g] = "none"
      BY <2>0, <2>6 DEF Teams!replaceLeader, TeamTypes
    <3> QED
      BY <2>0, <3>1, <3>2, Shrinks
  <2>7. ASSUME NEW t \in Thread, NEW r \in Member, Teams!createTeam(t, r)
        PROVE  AbsentIsEmpty' /\ OverfullBound'
    <3>1. PICK g \in Teams!Id :
            /\ status[g] = "none" /\ status' = [status EXCEPT ![g] = "open"]
            /\ teamOp' = [teamOp EXCEPT ![t] = [do |-> "insert", team |-> g, role |-> r]]
      BY <2>7 DEF Teams!createTeam, Teams!Then
    <3>2. Cardinality(member[g]) < Limit
      BY <3>1, FS_EmptySet, TeamAssumption DEF TeamInv, AbsentIsEmpty
    <3>3. teamOp[t] = Teams!Idle /\ UNCHANGED member
      BY <2>7 DEF Teams!createTeam
    <3>4. status'[g] # "none" /\ \A h \in Teams!Id : status'[h] = "none" => status[h] = "none"
      BY <2>0, <3>1 DEF TeamTypes
    <3> QED
      BY <2>0, <3>1, <3>2, <3>3, <3>4, JoinStep
  <2>8. ASSUME NEW t \in Thread, NEW r \in Member, NEW g \in Teams!Id, Teams!joinTeam(t, r, g)
        PROVE  AbsentIsEmpty' /\ OverfullBound'
    <3>1. /\ teamOp[t] = Teams!Idle /\ status[g] = "open" /\ UNCHANGED <<status, member>>
          /\ teamOp' = [teamOp EXCEPT ![t] = [do |-> "insert", team |-> g, role |-> r]]
      BY <2>8 DEF Teams!joinTeam, Teams!Then, Teams!tables
    <3>2. Cardinality(member[g]) < Limit
      BY <2>8, TeamCardinality DEF Teams!joinTeam
    <3> QED
      BY <2>0, <3>1, <3>2, JoinStep
  <2>9. ASSUME NEW t \in Thread, NEW r \in Member, Teams!leaveTeam(t, r)
        PROVE  AbsentIsEmpty' /\ OverfullBound'
    <3>1. PICK g \in Teams!Id :
            /\ member' \in {member, [member EXCEPT ![g] = @ \ {r}]}
            /\ \/ Teams!Then(t, [do |-> "succeed", team |-> g]) \/ Teams!Then(t, Teams!Idle)
      BY <2>9 DEF Teams!leaveTeam, Teams!getTeamByRole
    <3>2. [do |-> "succeed", team |-> g] \in TeamOp
      BY DEF TeamOp
    <3>3. \A h \in Teams!Id : Inserting(h)' \subseteq Inserting(h)
      BY <2>3, <2>5, <3>1, <3>2 DEF Teams!Then
    <3>4. UNCHANGED status /\ \A h \in Teams!Id : member'[h] \subseteq member[h]
      BY <2>0, <2>9, <3>1 DEF Teams!leaveTeam, TeamTypes
    <3> QED
      BY <2>0, <3>3, <3>4, Shrinks
  <2>10. ASSUME NEW t \in Thread, NEW r \in Member, NEW k \in Member, Teams!kickMember(t, r, k)
         PROVE  AbsentIsEmpty' /\ OverfullBound'
    <3>1. PICK g \in Teams!Id : member' = [member EXCEPT ![g] = @ \ {k}]
      BY <2>10 DEF Teams!kickMember, Teams!getTeamByRole
    <3>2. UNCHANGED <<status, teamOp>> /\ \A h \in Teams!Id : member'[h] \subseteq member[h]
      BY <2>0, <2>10, <3>1 DEF Teams!kickMember, TeamTypes
    <3> QED
      BY <2>0, <3>2, Shrinks DEF Inserting
  <2> QED
    BY <2>1, <2>2, <2>4, <2>6, <2>7, <2>8, <2>9, <2>10
       DEF Teams!Next, Teams!vars, Teams!tables, Teams!managerCreateTeam, Teams!dissolveTeam,
           Teams!addMember, Teams!removeMember
<1>3. TeamInv => OverfullByOverlap
  <2> SUFFICES ASSUME TeamInv, NEW g \in Teams!Id
               PROVE  Cardinality(member[g]) < Limit + Cardinality(Thread)
    BY TeamCardinality DEF OverfullByOverlap, Teams!OverfullByOverlap
  <2>1. /\ IsFiniteSet(member[g]) /\ Cardinality(member[g]) \in Nat
        /\ Cardinality(member[g]) + Cardinality(Inserting(g)) < Limit + Cardinality(Thread)
    BY FS_CardinalityType DEF TeamInv, OverfullBound
  <2>2. Cardinality(Inserting(g)) \in Nat /\ Cardinality(Thread) \in Nat
    BY InsertingBound DEF Inserting
  <2> QED
    BY <2>1, <2>2, TeamAssumption
<1> QED
  BY <1>1, <1>2, <1>3, PTL DEF Teams!Spec

-----------------------------------------------------------------------------
(* Friends. *)

\* What a request about friends may be doing.
FriendOps ==
  /\ friendOp \in [Thread -> {Friendships!Idle} \union
                              [do : {"insert", "cache", "uncache"}, pair : Friendships!Pair]]

\* A pair that is about to be cached is in the table or in doubt.
AddedOrUnsure ==
  \A t \in Thread : friendOp[t].do = "cache" => friendOp[t].pair \in relation \union unsure

\* The inductive invariant of the friends.
FriendInv == FriendOps /\ AddedOrUnsure /\ CachedAreStored

\* The cache of friends differs from the table only for pairs in doubt or under
\* way, for any number of roles, threads and requests.
THEOREM FriendsAreStored == Friendships!Spec => []CachedAreStored
<1> USE DEF FriendInv, FriendOps, AddedOrUnsure, CachedAreStored, Friendships!CachedAreStored,
        Friendships!Busy, Friendships!Idle
<1>1. Friendships!Init => FriendInv
  BY DEF Friendships!Init
<1>2. FriendInv /\ [Friendships!Next]_(Friendships!vars) => FriendInv'
  <2> SUFFICES ASSUME FriendInv, [Friendships!Next]_(Friendships!vars) PROVE FriendInv'
    OBVIOUS
  <2>1. CASE Friendships!Restart
    BY <2>1 DEF Friendships!Restart
  <2>2. ASSUME NEW t \in Thread, Friendships!cacheFriend(t) PROVE FriendInv'
    BY <2>2 DEF Friendships!cacheFriend
  <2>3. ASSUME NEW t \in Thread, Friendships!uncacheFriend(t) PROVE FriendInv'
    BY <2>3 DEF Friendships!uncacheFriend
  <2>4. ASSUME NEW t \in Thread, NEW p \in Friendships!Pair, Friendships!addFriend(t, p)
        PROVE  FriendInv'
    BY <2>4 DEF Friendships!addFriend
  <2>5. ASSUME NEW t \in Thread, NEW p \in Friendships!Pair, Friendships!removeFriend(t, p)
        PROVE  FriendInv'
    BY <2>5 DEF Friendships!removeFriend, Friendships!Doubt
  <2>6. ASSUME NEW t \in Thread, NEW p \in Friendships!Pair, Friendships!insertFriend(t, p)
        PROVE  FriendInv'
    BY <2>6 DEF Friendships!insertFriend, Friendships!Doubt
  <2>7. ASSUME NEW t \in Thread, Friendships!noConnection(t) PROVE FriendInv'
    BY <2>7 DEF Friendships!noConnection
  <2>8. CASE UNCHANGED Friendships!vars
    BY <2>8 DEF Friendships!vars
  <2> QED
    BY <2>1, <2>2, <2>3, <2>4, <2>5, <2>6, <2>7, <2>8 DEF Friendships!Next
<1>3. FriendInv => CachedAreStored
  OBVIOUS
<1> QED
  BY <1>1, <1>2, <1>3, PTL DEF Friendships!Spec

-----------------------------------------------------------------------------
(* The run. *)

\* Every behaviour of the run is one of each component.
THEOREM RunHasComponents ==
  MCSpec => /\ Entities!Spec /\ Builders!Spec /\ Links!Spec /\ Clients!Spec
            /\ Logins!Spec /\ Teams!Spec /\ Friendships!Spec
<1>1. MCInit => /\ Entities!Init /\ Builders!Init /\ Links!Init /\ Clients!Init
                /\ Logins!Init /\ Teams!Init /\ Friendships!Init
  BY DEF MCInit
<1> DEFINE all_vars == <<focus, roles, builders, links, clients, logins, teams, friends>>
<1>2. [MCNext]_all_vars =>
        /\ [Entities!Next]_(Entities!vars) /\ [Builders!Next]_(Builders!vars)
        /\ [Links!Next]_(Links!vars) /\ [Clients!Next]_(Clients!vars)
        /\ [Logins!Next]_(Logins!vars) /\ [Teams!Next]_(Teams!vars)
        /\ [Friendships!Next]_(Friendships!vars)
  <2>1. UNCHANGED roles => UNCHANGED Entities!vars
    BY DEF roles, Entities!vars, Entities!database, Entities!caches, Entities!history
  <2>2. UNCHANGED builders => UNCHANGED Builders!vars
    BY DEF builders, Builders!vars
  <2>3. UNCHANGED links => UNCHANGED Links!vars
    BY DEF links, Links!vars, Links!flags, Links!server, Links!history
  <2>4. UNCHANGED clients => UNCHANGED Clients!vars
    BY DEF clients, Clients!vars
  <2>5. UNCHANGED logins => UNCHANGED Logins!vars
    BY DEF logins, Logins!vars, Logins!redis, Logins!session, Logins!pool, Logins!history
  <2>6. UNCHANGED teams => UNCHANGED Teams!vars
    BY DEF teams, Teams!vars, Teams!tables, Teams!manager
  <2>7. UNCHANGED friends => UNCHANGED Friendships!vars
    BY DEF friends, Friendships!vars
  <2> QED
    BY <2>1, <2>2, <2>3, <2>4, <2>5, <2>6, <2>7 DEF MCNext
<1> QED
  BY <1>1, <1>2, PTL DEF MCSpec, Entities!Spec, Builders!Spec, Links!Spec, Clients!Spec,
     Logins!Spec, Teams!Spec, Friendships!Spec

\* What the run checks on small instances holds for all of them.
THEOREM RunIsSafe ==
  MCSpec => []( /\ CacheCoherent /\ NoSilentLoss /\ UsedOnceAligns /\ ReportedKept
                /\ NoCrossLoan /\ TrueMeansDone /\ LogoutRevokes /\ IdentityOwn
                /\ OverfullByOverlap /\ CachedAreStored)
  BY RunHasComponents, CachesServeTheTable, NoChangeIsForgotten, BuilderAligns,
     ReportedUpdatesKept, NoCommandCrossesLoans, TrueRepliesAreDone, LogoutKillsTokens,
     SessionsKeepNoStranger, TeamsOverfillByOverlap, FriendsAreStored, PTL
=============================================================================
