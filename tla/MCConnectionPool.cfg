SPECIFICATION FairSpec
CONSTANTS
  t1 = t1
  t2 = t2
  t3 = t3
  t4 = t4
  Thread <- Threads
  PoolSize = 2
INVARIANTS TypeOK Conservation NoLostWakeup
PROPERTIES WaitersGetConnections ImplementsLease
