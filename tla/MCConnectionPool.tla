--------------------------- MODULE MCConnectionPool ---------------------------
\* Four threads on two connections, the deployed pool size: two can wait while
\* two return their connections.
EXTENDS ConnectionPool

CONSTANTS t1, t2, t3, t4
Threads == {t1, t2, t3, t4}
==============================================================================
