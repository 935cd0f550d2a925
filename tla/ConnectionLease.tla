--------------------------- MODULE ConnectionLease ---------------------------
(***************************************************************************)
(* What a connection pool promises its callers: a connection is lent to    *)
(* one thread at a time, and a thread has at most one.                     *)
(***************************************************************************)
CONSTANTS Thread, Conn, NoConn

VARIABLE lease   \* thread -> the connection lent to it, or NoConn

Free == Conn \ {lease[t] : t \in Thread}

Init == lease = [t \in Thread |-> NoConn]

Acquire(t) == /\ lease[t] = NoConn
              /\ \E c \in Free : lease' = [lease EXCEPT ![t] = c]

Release(t) == /\ lease[t] # NoConn
              /\ lease' = [lease EXCEPT ![t] = NoConn]

Next == \E t \in Thread : Acquire(t) \/ Release(t)

Spec == Init /\ [][Next]_lease
==============================================================================
