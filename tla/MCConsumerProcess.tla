--------------------------- MODULE MCConsumerProcess ---------------------------
\* The two listeners of main.cpp, two messages and three faults.
EXTENDS ConsumerProcess
==============================================================================
