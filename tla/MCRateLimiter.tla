--------------------------- MODULE MCRateLimiter ---------------------------
EXTENDS RateLimiter

\* Two of the three addresses share a bucket.
HashDef == [ip \in Ips |-> IF ip = "a" THEN 0 ELSE 1]
=============================================================================
