----------------------------- MODULE RateLimiter -----------------------------
(***************************************************************************)
(* rate_limit.c: a table of token buckets indexed by a hash of the client  *)
(* address.  Rate, burst and elapsed seconds are whole numbers, so the     *)
(* doubles of the code only ever hold integers.                            *)
(*                                                                         *)
(* An observer (since, granted) counts the requests granted by a bucket    *)
(* from some request on; it may start over at any request.                 *)
(***************************************************************************)
EXTENDS Integers

CONSTANTS
  Ips,         \* client addresses
  Slots,       \* indices of the table
  Hash,        \* ip_hash(ip) % RL_TABLE_SIZE
  Rate,        \* requests_per_second
  Burst,       \* burst
  MaxNow       \* bound: the clock stays between 0 and MaxNow

ASSUME RateAssumption ==
  /\ Hash \in [Ips -> Slots] /\ Rate \in Nat /\ Burst \in Nat /\ MaxNow \in Nat

VARIABLES
  table,       \* rl_bucket_t table[RL_TABLE_SIZE]
  now,         \* time(NULL)
  setback,     \* the wall clock has been set back
  since, granted,
  last         \* the last request: granted, first of its address, pause before

vars == <<table, now, setback, since, granted, last>>

Bucket == [used : BOOLEAN, ip : Ips, tokens : {n \in Int : n <= Burst},
           last_refill : Int]

\* rate_limiter_create: calloc; the address of an unused bucket is not read.
Init ==
  /\ table \in [Slots -> {[used |-> FALSE, ip |-> a, tokens |-> 0,
                           last_refill |-> 0] : a \in Ips}]
  /\ now = 0 /\ setback = FALSE /\ since = [s \in Slots |-> 0] /\ granted = [s \in Slots |-> 0]
  /\ last = [ok |-> TRUE, new |-> FALSE, pause |-> 0]

Tick ==
  /\ now' \in 0..MaxNow \ {now} /\ setback' = (setback \/ now' < now)
  /\ UNCHANGED <<table, since, granted, last>>

\* Mutant: a colliding address inherits the tokens of the previous one.
ClaimedInherits(b, ip) ==
  IF b.used /\ b.ip = ip THEN b
  ELSE [used |-> TRUE, ip |-> ip, tokens |-> IF b.used THEN b.tokens ELSE Burst,
        last_refill |-> now]

\* The bucket once it belongs to ip: a new or another address starts full.
Claimed(b, ip) ==
  IF b.used /\ b.ip = ip THEN b
  ELSE [used |-> TRUE, ip |-> ip, tokens |-> Burst, last_refill |-> now]

\* Mutants: last_refill not updated; a clock that was set back counts as no
\* time passed.
RefilledTwice(b) ==
  LET n == b.tokens + (now - b.last_refill) * Rate
  IN  [b EXCEPT !.tokens = IF n > Burst THEN Burst ELSE n]

RefilledClamped(b) ==
  LET n == b.tokens + (IF now > b.last_refill THEN now - b.last_refill ELSE 0) * Rate
  IN  [b EXCEPT !.tokens = IF n > Burst THEN Burst ELSE n, !.last_refill = now]

\* Tokens for the time since the last request, up to the capacity.
Refilled(b) ==
  LET n == b.tokens + (now - b.last_refill) * Rate
  IN  [b EXCEPT !.tokens = IF n > Burst THEN Burst ELSE n, !.last_refill = now]

\* One token is taken if there is one.
Taken(b) == [b EXCEPT !.tokens = IF b.tokens < 1 THEN b.tokens ELSE b.tokens - 1]

\* rate_limit_check; restart says whether the observer starts over here.
rate_limit_check(ip, restart) ==
  LET s == Hash[ip]
      b == Refilled(Claimed(table[s], ip))
      ok == b.tokens >= 1
      new == restart \/ ~table[s].used \/ table[s].ip # ip
      one == IF ok THEN 1 ELSE 0
  IN  /\ table' = [table EXCEPT ![s] = Taken(b)]
      /\ since' = [since EXCEPT ![s] = IF new THEN now ELSE @]
      /\ granted' = [granted EXCEPT ![s] = IF new THEN one ELSE @ + one]
      /\ last' = [ok |-> ok, new |-> ~table[s].used \/ table[s].ip # ip,
                  pause |-> now - Claimed(table[s], ip).last_refill]
      /\ UNCHANGED <<now, setback>>

Next == Tick \/ \E ip \in Ips, restart \in BOOLEAN : rate_limit_check(ip, restart)

Spec == Init /\ [][Next]_vars

-----------------------------------------------------------------------------
TypeOK ==
  /\ table \in [Slots -> Bucket] /\ now \in 0..MaxNow /\ setback \in BOOLEAN
  /\ since \in [Slots -> Int] /\ granted \in [Slots -> Nat]
  /\ last \in [ok : BOOLEAN, new : BOOLEAN, pause : Int]

\* rate-limiting.md:29-33: from any request on, and until the bucket passes to
\* another address, what was granted and what is left never exceed the
\* capacity plus the refill of the time between; the clock may jump.
Conserved ==
  \A s \in Slots : table[s].used =>
    granted[s] + table[s].tokens
      <= Burst + Rate * (table[s].last_refill - since[s])

\* As long as the clock is not set back: in any period an address gets at most
\* burst requests more than requests_per_second allows.
RateBound ==
  ~setback => \A s \in Slots : granted[s] <= Burst + Rate * (now - since[s])

\* With such a clock a request is refused only if less than one token's time
\* has passed since its previous request, and never the first request of an
\* address: nobody is locked out.
ServedAfterPause ==
  ~setback /\ ~last.ok => Burst < 1 \/ (~last.new /\ Rate * last.pause < 1)
=============================================================================
