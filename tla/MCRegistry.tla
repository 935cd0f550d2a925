------------------------------ MODULE MCRegistry ------------------------------
\* Two HTTP threads, two names and two ids.  The ids of the database, the
\* threads and the names are interchangeable.
EXTENDS Registry, TLC

Symmetry == Permutations(Worker) \cup Permutations(Id) \cup Permutations(Name)
==============================================================================
