------------------------- MODULE ConsumerProcessProofs -------------------------
(***************************************************************************)
(* For any set of listeners and any number of messages and faults: the     *)
(* flags, sessions and consumers of the listeners fit where their threads  *)
(* are, whatever fails and whenever the process dies.                      *)
(***************************************************************************)
EXTENDS ConsumerProcess, TLAPS

\* Where main() is tells what the connection is, and no thread is inside
\* Start() before main() has created it or after main() has joined it; a
\* thread has a session only once it has passed CreateSession() and until its
\* listener is destroyed.
LifeCycle ==
  /\ main = "exited" => connection = "none"
  /\ main \in {"joining", "destroying"} => connection = "started"
  /\ \A l \in Listener :
       /\ loop[l] \in InStart => main = "joining"
       /\ l \in session =>
            /\ loop[l] \in {"consumer", "receive", "process", "ended"}
            /\ main \in {"joining", "destroying"}
       /\ loop[l] = "consumer" => l \in session
  /\ consumer \subseteq session

Safe == TypeOK /\ LifeCycle

LEMMA SafeInit == Init => Safe
  BY ConsumerProcessAssumption DEF Init, All, Safe, TypeOK, LifeCycle, InStart, NoMessage, Message

---------------------------------------------------------------------------
\* The steps of one thread, of main(), and of the world around them

LEMMA SafeListenerStep ==
  ASSUME Safe, NEW l \in Listener, ListenerStep(l) \/ LoseBroker(l) \/ FailToRead(l)
  PROVE  Safe'
<1> USE DEF Safe, TypeOK, LifeCycle, InStart
<1>1. CASE Start(l)
  BY <1>1 DEF Start
<1>2. CASE CreateSession(l)
  BY <1>2 DEF CreateSession
<1>3. CASE CreateConsumer(l)
  BY <1>3 DEF CreateConsumer
<1>4. CASE Receive(l)
  <2>1. Head(queue[l]) \in Message /\ Tail(queue[l]) \in Seq(Message)
    BY <1>4 DEF Receive
  <2> QED
    BY <1>4, <2>1 DEF Receive
<1>5. CASE ProcessMessage(l)
  BY <1>5 DEF ProcessMessage
<1>6. CASE LoseBroker(l)
  BY <1>6, ConsumerProcessAssumption DEF LoseBroker, Fault
<1>7. CASE FailToRead(l)
  <2>1. Tail(queue[l]) \in Seq(Message)
    BY <1>7 DEF FailToRead
  <2> QED
    BY <1>7, <2>1, ConsumerProcessAssumption DEF FailToRead, Fault
<1> QED
  BY <1>1, <1>2, <1>3, <1>4, <1>5, <1>6, <1>7 DEF ListenerStep

LEMMA SafeMainStep ==
  ASSUME Safe, MainStep \/ FailToInitialize
  PROVE  Safe'
<1> USE DEF Safe, TypeOK, LifeCycle, InStart, threads
<1>1. CASE CreateConnection
  BY <1>1 DEF CreateConnection
<1>2. CASE StartConnection
  BY <1>2 DEF StartConnection
<1>3. CASE Join
  BY <1>3 DEF Join
<1>4. CASE Shutdown
  BY <1>4 DEF Shutdown
<1>5. ASSUME NEW l \in Listener, Stop(l) PROVE Safe'
  BY <1>5 DEF Stop
<1>6. CASE FailToInitialize
  BY <1>6, ConsumerProcessAssumption DEF FailToInitialize, Fault
<1> QED
  BY <1>1, <1>2, <1>3, <1>4, <1>5, <1>6 DEF MainStep

LEMMA SafeWorldStep ==
  ASSUME Safe,
         \/ Restart \/ Kill
         \/ \E l \in Listener : CrashReadingWinners(l) \/ \E msg \in Message : Send(l, msg)
  PROVE  Safe'
<1> USE DEF Safe, TypeOK, LifeCycle, InStart
<1>1. CASE Restart
  BY <1>1 DEF Restart, All
<1>2. CASE Kill
  BY <1>2, ConsumerProcessAssumption DEF Kill, Die, Fault, All
<1>3. ASSUME NEW l \in Listener, NEW msg \in Message, Send(l, msg) PROVE Safe'
  <2>1. Append(queue[l], msg) \in Seq(Message)
    OBVIOUS
  <2> QED
    BY <1>3, <2>1, ConsumerProcessAssumption DEF Send, threads
<1>4. ASSUME NEW l \in Listener, CrashReadingWinners(l) PROVE Safe'
  BY <1>4 DEF CrashReadingWinners, Die, All
<1> QED
  BY <1>1, <1>2, <1>3, <1>4

LEMMA SafeStep == Safe /\ [Next]_vars => Safe'
<1> SUFFICES ASSUME Safe, [Next]_vars PROVE Safe'
  OBVIOUS
<1>1. CASE UNCHANGED vars
  BY <1>1 DEF vars, threads, Safe, TypeOK, LifeCycle
<1>2. CASE Next
  BY <1>2, SafeListenerStep, SafeMainStep, SafeWorldStep DEF Next, Failure
<1> QED
  BY <1>1, <1>2

---------------------------------------------------------------------------
LEMMA AlwaysSafe == Spec => []Safe
  BY SafeInit, SafeStep, PTL DEF Spec

\* The types, and the running flag that is set exactly inside Start().
THEOREM TypeCorrect == Spec => []TypeOK
<1>1. Safe => TypeOK
  BY DEF Safe
<1> QED
  BY <1>1, AlwaysSafe, PTL

\* A session lives within a started connection, a consumer within a session,
\* whatever fails and whenever the process is killed.
THEOREM SessionsNested == Spec => []SessionsWithinConnection
<1>1. Safe => SessionsWithinConnection
  BY DEF Safe, TypeOK, LifeCycle, SessionsWithinConnection
<1> QED
  BY <1>1, AlwaysSafe, PTL
==============================================================================
