---------------------------- MODULE ConnectionPool ----------------------------
(***************************************************************************)
(* PostgresConnectionProvider: a queue of database connections behind a    *)
(* mutex, a condition variable for the threads that found it empty, and a  *)
(* deleter that puts a connection back when its PooledConnection dies.     *)
(*                                                                         *)
(* Everything done under the mutex is one step; wait() is two, for it lets *)
(* the mutex go.  notify_one() comes after the unlock.  Every repository   *)
(* method takes one connection and gives it back before it returns.        *)
(***************************************************************************)
EXTENDS Naturals, Sequences, FiniteSets

CONSTANTS Thread, PoolSize

ASSUME PoolAssumption == IsFiniteSet(Thread) /\ PoolSize \in Nat

Conn == 1..PoolSize
NoConn == 0

VARIABLES pool,   \* the connections in the queue
          held,   \* thread -> the connection its PooledConnection owns
          pc      \* thread -> where it is

vars == <<pool, held, pc>>

\* waiting: blocked in wait(); entering: about to take the mutex, for the
\* first time or after a wake-up; notifying: between push and notify_one().
Where == {"idle", "entering", "waiting", "using", "notifying"}

Waiting == {t \in Thread : pc[t] = "waiting"}
Active  == {t \in Thread : pc[t] \in {"entering", "notifying"}}

Init ==
  /\ pool = [i \in 1..PoolSize |-> i]
  /\ held = [t \in Thread |-> NoConn]
  /\ pc = [t \in Thread |-> "idle"]

Connection(t) ==
  /\ pc[t] = "idle"
  /\ pc' = [pc EXCEPT ![t] = "entering"]
  /\ UNCHANGED <<pool, held>>

Wait(t) ==
  /\ pc[t] = "entering"
  /\ pool = <<>>
  /\ pc' = [pc EXCEPT ![t] = "waiting"]
  /\ UNCHANGED <<pool, held>>

\* Mutation: front() without pop().
TakeWithoutPop(t) ==
  /\ pc[t] = "entering"
  /\ pool # <<>>
  /\ held' = [held EXCEPT ![t] = Head(pool)]
  /\ pc' = [pc EXCEPT ![t] = "using"]
  /\ UNCHANGED pool

Take(t) ==
  /\ pc[t] = "entering"
  /\ pool # <<>>
  /\ pool' = Tail(pool)
  /\ held' = [held EXCEPT ![t] = Head(pool)]
  /\ pc' = [pc EXCEPT ![t] = "using"]

\* A condition variable may wake a thread for no reason.
WakeSpuriously(t) ==
  /\ pc[t] = "waiting"
  /\ pc' = [pc EXCEPT ![t] = "entering"]
  /\ UNCHANGED <<pool, held>>

\* Mutation: the deleter pushes a pointer that has been moved from.
PushMovedFrom(t) ==
  /\ pc[t] = "using"
  /\ held' = [held EXCEPT ![t] = NoConn]
  /\ pool' = Append(pool, NoConn)
  /\ pc' = [pc EXCEPT ![t] = "notifying"]

\* Mutation: the deleter forgets the connection.
PushNothing(t) ==
  /\ pc[t] = "using"
  /\ held' = [held EXCEPT ![t] = NoConn]
  /\ pc' = [pc EXCEPT ![t] = "notifying"]
  /\ UNCHANGED pool

\* Mutation: only who finds the queue empty notifies.
PushNotifyingOnce(t) ==
  /\ pc[t] = "using"
  /\ pool' = Append(pool, held[t])
  /\ held' = [held EXCEPT ![t] = NoConn]
  /\ pc' = [pc EXCEPT ![t] = IF pool = <<>> THEN "notifying" ELSE "idle"]

Push(t) ==
  /\ pc[t] = "using"
  /\ pool' = Append(pool, held[t])
  /\ held' = [held EXCEPT ![t] = NoConn]
  /\ pc' = [pc EXCEPT ![t] = "notifying"]

\* Mutation: nobody is notified.
NotifyNobody(t) ==
  /\ pc[t] = "notifying"
  /\ pc' = [pc EXCEPT ![t] = "idle"]
  /\ UNCHANGED <<pool, held>>

NotifyOne(t) ==
  /\ pc[t] = "notifying"
  /\ IF Waiting = {}
     THEN pc' = [pc EXCEPT ![t] = "idle"]
     ELSE \E w \in Waiting : pc' = [pc EXCEPT ![t] = "idle", ![w] = "entering"]
  /\ UNCHANGED <<pool, held>>

Next ==
  \E t \in Thread :
    Connection(t) \/ Wait(t) \/ Take(t) \/ WakeSpuriously(t) \/ Push(t) \/ NotifyOne(t)

Spec == Init /\ [][Next]_vars

\* A thread that runs goes on running; only wait() blocks it.
Fairness ==
  \A t \in Thread : WF_vars(Wait(t) \/ Take(t)) /\ WF_vars(Push(t)) /\ WF_vars(NotifyOne(t))

FairSpec == Spec /\ Fairness

---------------------------------------------------------------------------
\* The queue and each thread's position are within their types.
TypeOK ==
  /\ pool \in Seq(Conn)
  /\ held \in [Thread -> Conn \cup {NoConn}]
  /\ pc \in [Thread -> Where]

\* Every connection is in exactly one place: once in the queue or with one
\* thread that is using it.
Conservation ==
  /\ \A t \in Thread : held[t] # NoConn <=> pc[t] = "using"
  /\ \A i, j \in DOMAIN pool : pool[i] = pool[j] => i = j
  /\ \A t, u \in Thread : held[t] = held[u] /\ held[t] # NoConn => t = u
  /\ \A t \in Thread, i \in DOMAIN pool : pool[i] # held[t]
  /\ \A c \in Conn : (\E i \in DOMAIN pool : pool[i] = c) \/ \E t \in Thread : held[t] = c

\* No wake-up is lost although notify_one() runs after the unlock: while
\* somebody waits, there are at least as many threads on their way to the
\* queue, or to a notification, as there are connections in it.
NoLostWakeup == Waiting # {} => Len(pool) <= Cardinality(Active)

\* Hence connections do not lie in the queue while a thread sleeps for one.
WaitersGetConnections ==
  (Waiting # {} /\ pool # <<>>) ~> (Waiting = {} \/ pool = <<>>)

\* The pool implements the lease.
Lease == INSTANCE ConnectionLease WITH lease <- held
ImplementsLease == Lease!Spec
==============================================================================
