------------------------------ MODULE MCMaster ------------------------------
EXTENDS Master, TLC

\* Two configurations: a different number of workers, different ports, and
\* more workers than MAX_WORKERS allows.
WorkerProcessesDef == [c \in Configs |-> IF c = "small" THEN 1 ELSE 3]

PortsDef == [c \in Configs |-> IF c = "small" THEN {80} ELSE {80, 443}]

Symmetry == Permutations(Pids)
=============================================================================
