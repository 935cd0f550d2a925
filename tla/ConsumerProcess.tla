---------------------------- MODULE ConsumerProcess ----------------------------
(***************************************************************************)
(* The life of the consumer process: main builds the container, which      *)
(* connects to the broker, runs one thread for each listener, joins them,  *)
(* and the destructors close what was opened.  What a message makes the    *)
(* process write is MatchConsumer; here a message only matters by whether  *)
(* the loop and the process survive it.  CMS (sessions, consumers,         *)
(* delivery on a started connection, acknowledgement on receipt) is        *)
(* modelled from how the code uses it.  Nothing in the repository starts   *)
(* the process again once it has ended: an operator may.                   *)
(***************************************************************************)
EXTENDS Naturals, Sequences

CONSTANTS Listener,      \* one queue and one thread for each
          ScoreListener, \* the listeners that compute the knockout
          MaxMessages,   \* bound on messages sent to one queue at a time
          MaxFaults      \* bound on faults

ASSUME ConsumerProcessAssumption ==
  /\ ScoreListener \subseteq Listener
  /\ MaxMessages \in Nat /\ MaxFaults \in Nat

VARIABLES main,         \* where main() is
          connection,   \* ConnectionManager::connection_
          loop,         \* listener -> where Start() is
          running,      \* the listeners whose flag is set
          session,      \* the listeners with an open session
          consumer,     \* the listeners with an open consumer
          inHand,       \* listener -> the message processMessage() works on
          queue,        \* listener -> the messages at the broker
          sent,         \* messages sent so far
          faults

threads == <<loop, running, session, consumer, inHand>>
vars    == <<main, connection, threads, queue, sent, faults>>

\* A text that processMessage() understands, one it does not, and a message
\* that is no text.
Message   == {"event", "garbage", "other"}
NoMessage == "none"

InStart == {"session", "consumer", "receive", "process"}

\* A listener is marked as running exactly while its thread is inside Start().
TypeOK ==
  /\ main \in {"resolving", "joining", "destroying", "exited"}
  /\ connection \in {"none", "created", "started"}
  /\ loop \in [Listener -> {"new", "ended", "destroyed"} \cup InStart]
  /\ running \subseteq Listener /\ session \subseteq Listener /\ consumer \subseteq Listener
  /\ inHand \in [Listener -> Message \cup {NoMessage}]
  /\ queue \in [Listener -> Seq(Message)]
  /\ sent \in 0..MaxMessages /\ faults \in 0..MaxFaults
  /\ running = {l \in Listener : loop[l] \in InStart}

Fault == faults < MaxFaults /\ faults' = faults + 1

All(v) == [l \in Listener |-> v]

Init ==
  /\ main = "resolving" /\ connection = "none"
  /\ loop = All("new")
  /\ running = {} /\ session = {} /\ consumer = {}
  /\ inHand = All(NoMessage)
  /\ queue = All(<<>>)
  /\ sent = 0 /\ faults = 0

---------------------------------------------------------------------------
\* The API puts messages in the queues.
Send(l, msg) ==
  /\ sent < MaxMessages
  /\ sent' = sent + 1
  /\ queue' = [queue EXCEPT ![l] = Append(@, msg)]
  /\ UNCHANGED <<main, connection, threads, faults>>

---------------------------------------------------------------------------
\* main() before the threads

CreateConnection ==
  /\ main = "resolving" /\ connection = "none"
  /\ connection' = "created"
  /\ UNCHANGED <<main, threads, queue, sent, faults>>

StartConnection ==
  /\ main = "resolving" /\ connection = "created"
  /\ connection' = "started"
  /\ main' = "joining"
  /\ UNCHANGED <<threads, queue, sent, faults>>

\* Mutation: initialize() swallows the exception of start().
FailToInitializeSilently ==
  /\ main = "resolving" /\ connection = "created"
  /\ Fault
  /\ main' = "joining"
  /\ UNCHANGED <<connection, threads, queue, sent>>

\* initialize() throws: nothing catches it, and the process dies.
FailToInitialize ==
  /\ main = "resolving"
  /\ Fault
  /\ main' = "exited" /\ connection' = "none"
  /\ UNCHANGED <<threads, queue, sent>>

---------------------------------------------------------------------------
\* The threads

Start(l) ==
  /\ main = "joining"
  /\ loop[l] = "new" /\ l \notin running
  /\ running' = running \cup {l}
  /\ loop' = [loop EXCEPT ![l] = "session"]
  /\ UNCHANGED <<main, connection, session, consumer, inHand, queue, sent, faults>>

CreateSession(l) ==
  /\ loop[l] = "session" /\ connection # "none"
  /\ session' = session \cup {l}
  /\ loop' = [loop EXCEPT ![l] = "consumer"]
  /\ UNCHANGED <<main, connection, running, consumer, inHand, queue, sent, faults>>

CreateConsumer(l) ==
  /\ loop[l] = "consumer"
  /\ consumer' = consumer \cup {l}
  /\ loop' = [loop EXCEPT ![l] = "receive"]
  /\ UNCHANGED <<main, connection, running, session, inHand, queue, sent, faults>>

Receive(l) ==
  /\ loop[l] = "receive" /\ connection = "started"
  /\ queue[l] # <<>>
  /\ queue' = [queue EXCEPT ![l] = Tail(@)]
  /\ IF Head(queue[l]) = "other"
     THEN UNCHANGED <<inHand, loop>>
     ELSE /\ inHand' = [inHand EXCEPT ![l] = Head(queue[l])]
          /\ loop' = [loop EXCEPT ![l] = "process"]
  /\ UNCHANGED <<main, connection, running, session, consumer, sent, faults>>

\* getText() throws, outside processMessage(): the message is taken and lost,
\* and the loop ends.
FailToRead(l) ==
  /\ loop[l] = "receive" /\ connection = "started"
  /\ queue[l] # <<>> /\ Head(queue[l]) # "other"
  /\ Fault
  /\ queue' = [queue EXCEPT ![l] = Tail(@)]
  /\ running' = running \ {l}
  /\ loop' = [loop EXCEPT ![l] = "ended"]
  /\ UNCHANGED <<main, connection, session, consumer, inHand, sent>>

\* processMessage() catches what the delegate throws: the loop goes on.
ProcessMessage(l) ==
  /\ loop[l] = "process"
  /\ loop' = [loop EXCEPT ![l] = "receive"]
  /\ inHand' = [inHand EXCEPT ![l] = NoMessage]
  /\ UNCHANGED <<main, connection, running, session, consumer, queue, sent, faults>>

\* Mutation: running is not reset.
LoseBrokerRunning(l) ==
  /\ loop[l] \in {"session", "consumer", "receive"}
  /\ Fault
  /\ loop' = [loop EXCEPT ![l] = "ended"]
  /\ UNCHANGED <<main, connection, running, session, consumer, inHand, queue, sent>>

\* A CMSException out of createSession, createConsumer or receive ends this
\* thread and leaves what it has opened open; nobody starts it again.
LoseBroker(l) ==
  /\ loop[l] \in {"session", "consumer", "receive"}
  /\ Fault
  /\ running' = running \ {l}
  /\ loop' = [loop EXCEPT ![l] = "ended"]
  /\ UNCHANGED <<main, connection, session, consumer, inHand, queue, sent>>

---------------------------------------------------------------------------
\* main() after the threads

Join ==
  /\ main = "joining"
  /\ \A l \in Listener : loop[l] = "ended"
  /\ main' = "destroying"
  /\ UNCHANGED <<connection, threads, queue, sent, faults>>

\* Mutation: like Start(), Stop() returns at once if the flag says so.
StopIfRunning(l) ==
  /\ main = "destroying" /\ loop[l] = "ended"
  /\ loop' = [loop EXCEPT ![l] = "destroyed"]
  /\ running' = running \ {l}
  /\ IF l \in running
     THEN consumer' = consumer \ {l} /\ session' = session \ {l}
     ELSE UNCHANGED <<consumer, session>>
  /\ UNCHANGED <<main, connection, inHand, queue, sent, faults>>

\* The destructor of a listener.
Stop(l) ==
  /\ main = "destroying" /\ loop[l] = "ended"
  /\ loop' = [loop EXCEPT ![l] = "destroyed"]
  /\ running' = running \ {l}
  /\ consumer' = consumer \ {l}
  /\ session' = session \ {l}
  /\ UNCHANGED <<main, connection, inHand, queue, sent, faults>>

\* The destructor of the ConnectionManager, which every listener owns a share of.
Shutdown ==
  /\ main = "destroying"
  /\ \A l \in Listener : loop[l] = "destroyed"
  /\ connection' = "none"
  /\ main' = "exited"
  /\ UNCHANGED <<threads, queue, sent, faults>>

---------------------------------------------------------------------------
\* The world around the process

\* The process dies, and the system closes what it had open; a message in
\* hand was acknowledged when it was received.
Die ==
  /\ main' = "exited" /\ connection' = "none"
  /\ running' = {} /\ session' = {} /\ consumer' = {}
  /\ loop' = All("destroyed") /\ inHand' = All(NoMessage)
  /\ UNCHANGED <<queue, sent>>

Kill == main \notin {"resolving", "exited"} /\ Fault /\ Die

\* Undefined behaviour that no handler catches: with fewer than eight groups
\* the quarter-finals read winners that are not there (MatchConsumer).
CrashReadingWinners(l) ==
  /\ l \in ScoreListener
  /\ loop[l] = "process" /\ inHand[l] = "event"
  /\ Die
  /\ UNCHANGED faults

Restart ==
  /\ main = "exited"
  /\ main' = "resolving"
  /\ loop' = All("new")
  /\ UNCHANGED <<connection, running, session, consumer, inHand, queue, sent, faults>>

ListenerStep(l) ==
  Start(l) \/ CreateSession(l) \/ CreateConsumer(l) \/ Receive(l) \/ ProcessMessage(l)

Failure(l) == LoseBroker(l) \/ FailToRead(l) \/ CrashReadingWinners(l)

MainStep ==
  CreateConnection \/ StartConnection \/ Join \/ Shutdown \/ \E l \in Listener : Stop(l)

Next ==
  \/ MainStep \/ Restart
  \/ \E l \in Listener : ListenerStep(l) \/ Failure(l) \/ \E msg \in Message : Send(l, msg)
  \/ FailToInitialize \/ Kill

Spec == Init /\ [][Next]_vars

\* main and the threads run as long as the process does; Restart is not fair.
Fairness ==
  /\ WF_vars(MainStep)
  /\ \A l \in Listener : WF_vars(ListenerStep(l))

FairSpec == Spec /\ Fairness

---------------------------------------------------------------------------
\* "Start connection before creating sessions", "each session must be closed
\* by the caller": a session lives within a started connection, a consumer
\* within a session, on every path the process can take to its end.
SessionsWithinConnection ==
  /\ session # {} => connection = "started"
  /\ consumer \subseteq session

HalfDead(l) == loop[l] = "ended" /\ \E k \in Listener : loop[k] \in InStart

\* A process that is up serves both queues (QueueMessageListener::Start,
\* main.cpp).  Messages wait forever in two cases only: the process has ended
\* for good, or their listener's thread has and the other one keeps the
\* process, and main() in join, alive.
ServedUnlessDead ==
  \A l \in Listener :
    <>[](queue[l] = <<>>) \/ <>[]HalfDead(l) \/ <>[](main = "exited")
==============================================================================
