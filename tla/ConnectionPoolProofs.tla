------------------------- MODULE ConnectionPoolProofs -------------------------
(***************************************************************************)
(* For every set of threads and every pool size: the pool neither loses    *)
(* nor duplicates a connection, loses no wake-up, and implements the       *)
(* lease.                                                                  *)
(***************************************************************************)
EXTENDS ConnectionPool, FiniteSetTheorems, SequenceTheorems, TLAPS

\* A queue with one element more, or without its first one, holds the elements
\* one expects.
LEMMA AppendElements ==
  ASSUME NEW S, NEW s \in Seq(S), NEW e \in S
  PROVE  /\ Append(s, e) \in Seq(S)
         /\ Len(Append(s, e)) = Len(s) + 1
         /\ DOMAIN Append(s, e) = 1..(Len(s) + 1)
         /\ \A i \in 1..Len(s) : Append(s, e)[i] = s[i]
         /\ Append(s, e)[Len(s) + 1] = e
  OBVIOUS

LEMMA TailElements ==
  ASSUME NEW S, NEW s \in Seq(S), s # <<>>
  PROVE  /\ Head(s) \in S /\ Tail(s) \in Seq(S)
         /\ Len(Tail(s)) = Len(s) - 1
         /\ DOMAIN Tail(s) = 1..(Len(s) - 1)
         /\ \A i \in 1..(Len(s) - 1) : Tail(s)[i] = s[i + 1]
         /\ Head(s) = s[1]
         /\ 1 \in DOMAIN s /\ DOMAIN s = 1..Len(s)
  OBVIOUS

---------------------------------------------------------------------------
\* A queue that only ever holds connections, and each of them in one place, is
\* preserved together: what Push returns to the queue is a connection only
\* because a thread that is "using" holds one.
Safe == TypeOK /\ Conservation

LEMMA SafeInit == Init => Safe
<1> SUFFICES ASSUME Init PROVE Safe
  OBVIOUS
<1>1. /\ pool \in Seq(Conn) /\ DOMAIN pool = Conn
      /\ \A i \in Conn : pool[i] = i
  BY PoolAssumption DEF Init, Conn
<1>2. TypeOK
  BY <1>1 DEF Init, TypeOK, Where
<1>3. Conservation
  BY <1>1 DEF Init, Conservation, NoConn, Conn
<1> QED
  BY <1>2, <1>3 DEF Safe

LEMMA SafeStep == Safe /\ [Next]_vars => Safe'
<1> SUFFICES ASSUME Safe, [Next]_vars PROVE Safe'
  OBVIOUS
<1> USE DEF Safe
<1>1. CASE UNCHANGED vars
  BY <1>1 DEF vars, TypeOK, Conservation
<1>2. ASSUME NEW t \in Thread, Connection(t) \/ Wait(t) \/ WakeSpuriously(t) \/ NotifyOne(t)
      PROVE  Safe'
  <2>1. /\ UNCHANGED <<pool, held>>
        /\ pc' \in [Thread -> Where]
        /\ \A u \in Thread : pc[u] = "using" <=> pc'[u] = "using"
    BY <1>2 DEF Connection, Wait, WakeSpuriously, NotifyOne, Waiting, TypeOK, Where
  <2> QED
    BY <2>1 DEF TypeOK, Conservation
<1>3. ASSUME NEW t \in Thread, Take(t) PROVE Safe'
  <2>1. /\ Head(pool) \in Conn /\ pool' \in Seq(Conn)
        /\ DOMAIN pool = 1..Len(pool) /\ Len(pool) \in Nat /\ 1 \in DOMAIN pool
        /\ DOMAIN pool' = 1..(Len(pool) - 1)
        /\ \A i \in 1..(Len(pool) - 1) : pool'[i] = pool[i + 1]
        /\ Head(pool) = pool[1]
    BY <1>3, TailElements DEF Take, TypeOK
  <2>2. /\ pc[t] = "entering" /\ pc' = [pc EXCEPT ![t] = "using"]
        /\ held' = [held EXCEPT ![t] = Head(pool)]
    BY <1>3 DEF Take
  <2>3. TypeOK'
    BY <2>1, <2>2 DEF TypeOK, Where
  <2>4. \A i \in DOMAIN pool' : i + 1 \in DOMAIN pool /\ pool'[i] = pool[i + 1]
    BY <2>1
  <2>5. (\A u \in Thread : held[u] # NoConn <=> pc[u] = "using")'
    BY <2>1, <2>2 DEF TypeOK, Conservation, Conn, NoConn
  <2>6. (\A i, j \in DOMAIN pool : pool[i] = pool[j] => i = j)'
    BY <2>1, <2>4 DEF Conservation
  <2>7. (\A u, v \in Thread : held[u] = held[v] /\ held[u] # NoConn => u = v)'
    BY <2>1, <2>2 DEF TypeOK, Conservation
  <2>8. (\A u \in Thread, i \in DOMAIN pool : pool[i] # held[u])'
    BY <2>1, <2>2, <2>4 DEF TypeOK, Conservation
  <2>9. ASSUME NEW c \in Conn
        PROVE  (\E i \in DOMAIN pool' : pool'[i] = c) \/ \E u \in Thread : held'[u] = c
    <3>1. CASE \E u \in Thread : held[u] = c
      BY <3>1, <2>2 DEF TypeOK, Conservation, Conn, NoConn
    <3>2. CASE \E i \in DOMAIN pool : pool[i] = c
      <4>1. PICK i \in DOMAIN pool : pool[i] = c
        BY <3>2
      <4>2. CASE i = 1
        BY <4>1, <4>2, <2>1, <2>2 DEF TypeOK
      <4>3. CASE i # 1
        <5>1. i - 1 \in DOMAIN pool' /\ pool'[i - 1] = pool[i]
          BY <4>3, <2>1
        <5> QED
          BY <4>1, <5>1
      <4> QED
        BY <4>2, <4>3
    <3> QED
      BY <3>1, <3>2 DEF Conservation
  <2> QED
    BY <2>3, <2>5, <2>6, <2>7, <2>8, <2>9 DEF Conservation, Conn
<1>4. ASSUME NEW t \in Thread, Push(t) PROVE Safe'
  <2>1. /\ pc[t] = "using" /\ pc' = [pc EXCEPT ![t] = "notifying"]
        /\ held' = [held EXCEPT ![t] = NoConn]
        /\ pool' = Append(pool, held[t])
    BY <1>4 DEF Push
  <2>2. held[t] \in Conn
    BY <2>1 DEF TypeOK, Conservation
  <2>3. /\ pool' \in Seq(Conn) /\ Len(pool) \in Nat
        /\ DOMAIN pool = 1..Len(pool) /\ DOMAIN pool' = 1..(Len(pool) + 1)
        /\ \A i \in 1..Len(pool) : pool'[i] = pool[i]
        /\ pool'[Len(pool) + 1] = held[t]
    BY <2>1, <2>2, AppendElements, LenProperties DEF TypeOK
  <2>4. TypeOK'
    BY <2>1, <2>3 DEF TypeOK, Where
  <2>5. (\A u \in Thread : held[u] # NoConn <=> pc[u] = "using")'
    BY <2>1 DEF TypeOK, Conservation
  <2>6. (\A i, j \in DOMAIN pool : pool[i] = pool[j] => i = j)'
    BY <2>3 DEF Conservation
  <2>7. (\A u, v \in Thread : held[u] = held[v] /\ held[u] # NoConn => u = v)'
    BY <2>1 DEF TypeOK, Conservation
  <2>8. ASSUME NEW u \in Thread, NEW i \in DOMAIN pool' PROVE pool'[i] # held'[u]
    <3>1. pool'[i] \in Conn
      BY <2>3, ElementOfSeq
    <3>2. CASE u = t
      BY <3>1, <3>2, <2>1 DEF TypeOK, Conn, NoConn
    <3>3. CASE u # t /\ i = Len(pool) + 1
      <4>1. held'[u] = held[u] /\ pool'[i] = held[t]
        BY <3>3, <2>1, <2>3 DEF TypeOK
      <4> QED
        BY <4>1, <3>3, <2>2 DEF Conservation, Conn, NoConn
    <3>4. CASE u # t /\ i # Len(pool) + 1
      <4>1. held'[u] = held[u] /\ i \in DOMAIN pool /\ pool'[i] = pool[i]
        BY <3>4, <2>1, <2>3 DEF TypeOK
      <4> QED
        BY <4>1 DEF Conservation
    <3> QED
      BY <3>2, <3>3, <3>4
  <2>9. ASSUME NEW c \in Conn
        PROVE  (\E i \in DOMAIN pool' : pool'[i] = c) \/ \E u \in Thread : held'[u] = c
    <3>1. CASE c = held[t]
      BY <3>1, <2>3
    <3>2. CASE c # held[t]
      BY <3>2, <2>1, <2>3 DEF TypeOK, Conservation
    <3> QED
      BY <3>1, <3>2
  <2> QED
    BY <2>4, <2>5, <2>6, <2>7, <2>8, <2>9 DEF Conservation, Conn
<1> QED
  BY <1>1, <1>2, <1>3, <1>4 DEF Next

\* The queue only ever holds connections, a thread holds one or nothing.
THEOREM TypeCorrect == Spec => []TypeOK
<1>1. Safe => TypeOK
  BY DEF Safe
<1> QED
  BY <1>1, SafeInit, SafeStep, PTL DEF Spec

\* Every connection is at every moment in exactly one place
\* (PostgresConnectionProvider::Connection and its deleter).
THEOREM ConnectionsConserved == Spec => []Conservation
<1>1. Safe => Conservation
  BY DEF Safe
<1> QED
  BY <1>1, SafeInit, SafeStep, PTL DEF Spec

---------------------------------------------------------------------------
\* The threads on their way to the queue, and how a step changes their number.
LEMMA ActiveFinite == IsFiniteSet(Active) /\ Cardinality(Active) \in Nat
<1>1. Active \subseteq Thread
  BY DEF Active
<1> QED
  BY <1>1, PoolAssumption, FS_Subset, FS_CardinalityType

\* One thread joins them, one leaves them, or one takes the place of another.
LEMMA ActiveGrows ==
  ASSUME NEW t \in Thread \ Active, Active' = Active \cup {t}
  PROVE  Cardinality(Active') = Cardinality(Active) + 1
  BY ActiveFinite, FS_AddElement

LEMMA ActiveShrinks ==
  ASSUME NEW t \in Active, Active' = Active \ {t}
  PROVE  Cardinality(Active') = Cardinality(Active) - 1
  BY ActiveFinite, FS_RemoveElement

LEMMA ActiveExchanges ==
  ASSUME NEW t \in Active, NEW w \in Thread \ Active, Active' = (Active \ {t}) \cup {w}
  PROVE  Cardinality(Active') = Cardinality(Active)
<1> DEFINE Rest == Active \ {t}
<1>1. IsFiniteSet(Rest) /\ Cardinality(Rest) = Cardinality(Active) - 1
  BY ActiveFinite, FS_RemoveElement
<1>2. w \notin Rest /\ Active' = Rest \cup {w}
  OBVIOUS
<1>3. Cardinality(Active') = Cardinality(Rest) + 1
  BY <1>1, <1>2, FS_AddElement
<1> QED
  BY <1>1, <1>3, ActiveFinite

\* Given the types alone, NoLostWakeup is inductive: what leaves the queue leaves
\* with an active thread, what enters it comes with one, and a notification only
\* passes the activity on.
LEMMA WakeupStep == TypeOK /\ NoLostWakeup /\ [Next]_vars => NoLostWakeup'
<1> SUFFICES ASSUME TypeOK, NoLostWakeup, [Next]_vars, Waiting' # {}
             PROVE  Len(pool') <= Cardinality(Active')
  BY DEF NoLostWakeup
<1>0. Len(pool) \in Nat /\ Cardinality(Active) \in Nat
  BY ActiveFinite, LenProperties DEF TypeOK
<1>1. CASE UNCHANGED vars
  BY <1>1 DEF vars, NoLostWakeup, Waiting, Active
<1>2. ASSUME NEW t \in Thread, Connection(t) \/ WakeSpuriously(t)
      PROVE  Len(pool') <= Cardinality(Active')
  <2>1. pool' = pool /\ Waiting' \subseteq Waiting
    BY <1>2 DEF Connection, WakeSpuriously, Waiting, TypeOK
  <2>2. t \in Thread \ Active /\ Active' = Active \cup {t}
    BY <1>2 DEF Connection, WakeSpuriously, Active, TypeOK
  <2>3. Cardinality(Active') = Cardinality(Active) + 1
    BY <2>2, ActiveGrows
  <2> QED
    BY <2>1, <2>2, <2>3, <1>0 DEF NoLostWakeup
<1>3. ASSUME NEW t \in Thread, Wait(t) PROVE Len(pool') <= Cardinality(Active')
  <2>1. pool' = <<>> /\ Active' = Active \ {t} /\ t \in Active
    BY <1>3 DEF Wait, Active, TypeOK
  <2>2. Cardinality(Active') = Cardinality(Active) - 1 /\ Cardinality(Active) # 0
    BY <2>1, ActiveShrinks, ActiveFinite, FS_EmptySet
  <2> QED
    BY <2>1, <2>2, <1>0
<1>4. ASSUME NEW t \in Thread, Take(t) PROVE Len(pool') <= Cardinality(Active')
  <2>1. Len(pool') = Len(pool) - 1
    BY <1>4, TailElements DEF Take, TypeOK
  <2>2. Waiting' = Waiting /\ Active' = Active \ {t} /\ t \in Active
    BY <1>4 DEF Take, Waiting, Active, TypeOK
  <2>3. Cardinality(Active') = Cardinality(Active) - 1
    BY <2>2, ActiveShrinks
  <2> QED
    BY <2>1, <2>2, <2>3, <1>0 DEF NoLostWakeup
<1>5. ASSUME NEW t \in Thread, Push(t) PROVE Len(pool') <= Cardinality(Active')
  <2>1. Len(pool') = Len(pool) + 1
    BY <1>5 DEF Push, TypeOK
  <2>2. Waiting' = Waiting /\ t \in Thread \ Active /\ Active' = Active \cup {t}
    BY <1>5 DEF Push, Waiting, Active, TypeOK
  <2>3. Cardinality(Active') = Cardinality(Active) + 1
    BY <2>2, ActiveGrows
  <2> QED
    BY <2>1, <2>2, <2>3, <1>0 DEF NoLostWakeup
<1>6. ASSUME NEW t \in Thread, NotifyOne(t) PROVE Len(pool') <= Cardinality(Active')
  <2>1. CASE Waiting = {}
    BY <2>1, <1>6 DEF NotifyOne, Waiting, TypeOK
  <2>2. CASE Waiting # {}
    <3>1. PICK w \in Waiting : pc' = [pc EXCEPT ![t] = "idle", ![w] = "entering"]
      BY <2>2, <1>6 DEF NotifyOne
    <3>2. pool' = pool /\ pc[t] = "notifying" /\ w \in Thread /\ pc[w] = "waiting"
      BY <3>1, <1>6 DEF NotifyOne, Waiting
    <3>3. /\ t \in Active /\ w \in Thread \ Active
          /\ Active' = (Active \ {t}) \cup {w}
      BY <3>1, <3>2 DEF Active, TypeOK
    <3> QED
      BY <3>2, <3>3, <2>2, <1>0, ActiveExchanges DEF NoLostWakeup
  <2> QED
    BY <2>1, <2>2
<1> QED
  BY <1>1, <1>2, <1>3, <1>4, <1>5, <1>6 DEF Next

\* No notification is lost although notify_one() runs after the mutex has been
\* released (PostgresConnectionProvider::Connection).
THEOREM WakeupsKept == Spec => []NoLostWakeup
<1>1. Init => NoLostWakeup
  BY DEF Init, NoLostWakeup, Waiting
<1> QED
  BY <1>1, WakeupStep, TypeCorrect, PTL DEF Spec

---------------------------------------------------------------------------
\* The pool implements the lease: Take acquires, Push releases, and every other
\* step is a stutter.
LEMMA LeaseStep == Safe /\ [Next]_vars => [Lease!Next]_held
<1> SUFFICES ASSUME Safe, [Next]_vars, held' # held PROVE Lease!Next
  OBVIOUS
<1> USE DEF Safe
<1>1. ASSUME NEW t \in Thread, Take(t) PROVE Lease!Acquire(t)
  <2>1. /\ pc[t] = "entering" /\ held' = [held EXCEPT ![t] = Head(pool)]
        /\ Head(pool) \in Conn /\ 1 \in DOMAIN pool /\ Head(pool) = pool[1]
    BY <1>1, TailElements DEF Take, TypeOK
  <2>2. held[t] = NoConn
    BY <2>1 DEF Conservation
  <2>3. Head(pool) \in Lease!Free
    BY <2>1 DEF Conservation, Lease!Free
  <2> QED
    BY <2>1, <2>2, <2>3 DEF Lease!Acquire
<1>2. ASSUME NEW t \in Thread, Push(t) PROVE Lease!Release(t)
  BY <1>2 DEF Push, Conservation, Lease!Release
<1> QED
  BY <1>1, <1>2 DEF Next, vars, Lease!Next, Connection, Wait, WakeSpuriously, NotifyOne

\* A connection is lent to one thread at a time
\* (PostgresConnectionProvider::Connection, PooledConnection's deleter).
THEOREM PoolImplementsLease == Spec => ImplementsLease
<1>1. Init => Lease!Init
  BY DEF Init, Lease!Init
<1>2. Spec => []Safe
  BY SafeInit, SafeStep, PTL DEF Spec
<1> QED
  BY <1>1, <1>2, LeaseStep, PTL DEF Spec, ImplementsLease, Lease!Spec
==============================================================================
