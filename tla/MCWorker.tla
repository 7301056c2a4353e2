------------------------------ MODULE MCWorker ------------------------------
EXTENDS Worker, TLC

Symmetry ==
  Permutations(Conns) \cup Permutations(Fds) \cup Permutations(Backends)
=============================================================================
