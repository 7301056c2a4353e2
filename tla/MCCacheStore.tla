---------------------------- MODULE MCCacheStore ----------------------------
EXTENDS CacheStore, TLC

\* All connections in one worker, or each in its own.
OneWorker == [c \in Conns |-> CHOOSE w \in Workers : TRUE]

WorkerEach == CHOOSE f \in [Conns -> Workers] : \A c, d \in Conns : f[c] = f[d] => c = d

\* Short keys: nothing is cut off; every key has a file name of its own.
KeyItself == [k \in Keys |-> k]

\* A key that is too long is cut down to another request's key.
LongCut == [k \in Keys |-> IF k = "long" THEN "cut" ELSE k]

Symmetry == Permutations(Inodes)
=============================================================================
