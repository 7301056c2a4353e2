------------------------- MODULE RateLimiterProofs -------------------------
(***************************************************************************)
(* The token bucket for every rate, burst, table size and set of clients.  *)
(* Conserved is inductive together with TypeOK, whatever the clock does.   *)
(* RateBound and ServedAfterPause need a clock that was not set back:      *)
(* then last_refill is never in the future and no bucket is in debt.       *)
(***************************************************************************)
EXTENDS RateLimiter, TLAPS

\* Arithmetic on products, which the provers do not find by themselves.
LEMMA MulSplit ==
  \A r \in Nat, a, b, c \in Int : r * (a - c) = r * (b - c) + (a - b) * r
<1>. QED
  BY SMT

\* No time, no tokens.
LEMMA MulZero == \A r \in Nat, a \in Int : r * (a - a) = 0
<1>. QED
  BY SMT

\* Products of naturals.
LEMMA MulNat == \A r, n \in Nat : r * n \in Nat /\ n * r \in Nat
<1>. QED
  BY SMT

\* No bucket is in use at the start.
LEMMA InitType == Init => TypeOK /\ Conserved
<1>. SUFFICES ASSUME Init PROVE TypeOK /\ Conserved
  OBVIOUS
<1>1. table \in [Slots -> Bucket] /\ \A s \in Slots : ~table[s].used
  <2>1. \A a \in Ips : [used |-> FALSE, ip |-> a, tokens |-> 0, last_refill |-> 0]
                         \in Bucket
    BY RateAssumption DEF Bucket
  <2>2. \A s \in Slots : table[s].used = FALSE /\ table[s] \in Bucket
    BY <2>1 DEF Init
  <2>. QED
    BY <2>2 DEF Init
<1>2. now \in 0..MaxNow /\ since \in [Slots -> Int] /\ granted \in [Slots -> Nat]
  BY RateAssumption DEF Init
<1>4. setback \in BOOLEAN
  BY Zenon DEF Init
<1>3. last \in [ok : BOOLEAN, new : BOOLEAN, pause : Int]
  BY SMTT(30) DEF Init
<1>. QED
  BY <1>1, <1>2, <1>3, <1>4 DEF TypeOK, Conserved

\* What one call does to its bucket and to the observer of that bucket.
CheckFacts(ip) ==
  LET s == Hash[ip]
      b == table[s]
      known == b.used /\ b.ip = ip
      base == IF known THEN b.tokens ELSE Burst
      pause == IF known THEN now - b.last_refill ELSE 0
      full == IF base + pause * Rate > Burst THEN Burst ELSE base + pause * Rate
      c == table'[s]
  IN  /\ c \in Bucket /\ c.used /\ c.last_refill = now
      /\ c.tokens = (IF full < 1 THEN full ELSE full - 1)
      /\ last'.ok = (full >= 1) /\ last'.new = (~known)
      /\ last'.pause = pause /\ last' \in [ok : BOOLEAN, new : BOOLEAN, pause : Int]
      /\ \/ /\ since'[s] = now /\ granted'[s] = IF full >= 1 THEN 1 ELSE 0
         \/ /\ known /\ since'[s] = since[s]
            /\ granted'[s] = granted[s] + (IF full >= 1 THEN 1 ELSE 0)
      /\ \A q \in Slots \ {s} : /\ table'[q] = table[q] /\ since'[q] = since[q]
                                /\ granted'[q] = granted[q]
      /\ table' \in [Slots -> Bucket] /\ since' \in [Slots -> Int]
      /\ granted' \in [Slots -> Nat] /\ now' = now /\ setback' = setback

\* CheckFacts is what rate_limit_check does.
LEMMA CheckDoes ==
  ASSUME TypeOK, NEW ip \in Ips, NEW restart \in BOOLEAN,
         rate_limit_check(ip, restart)
  PROVE  CheckFacts(ip)
<1>. DEFINE s == Hash[ip]
            b == table[s]
            known == b.used /\ b.ip = ip
            base == IF known THEN b.tokens ELSE Burst
            pause == IF known THEN now - b.last_refill ELSE 0
            n == base + pause * Rate
            full == IF n > Burst THEN Burst ELSE n
            k == Claimed(b, ip)
            r == Refilled(k)
            c == Taken(r)
<1>1. /\ s \in Slots /\ Rate \in Int /\ Burst \in Int /\ now \in Int
      /\ b \in Bucket
  BY RateAssumption DEF TypeOK
<1>2. /\ k \in Bucket /\ k.used /\ k.ip = ip /\ k.tokens = base
      /\ k.last_refill = (IF known THEN b.last_refill ELSE now)
  BY <1>1 DEF Claimed, Bucket
<1>3. base \in Int /\ pause \in Int /\ now - k.last_refill = pause
  BY <1>1, <1>2 DEF Bucket
<1>4. n \in Int
  BY <1>1, <1>3
<1>. HIDE DEF base, pause, k
<1>15. k.tokens + (now - k.last_refill) * Rate = n
  BY <1>2, <1>3
<1>. HIDE DEF n
<1>6. full \in Int /\ full <= Burst
  BY <1>1, <1>4
<1>16. r = [k EXCEPT !.tokens = full, !.last_refill = now]
  BY <1>15, Zenon DEF Refilled
<1>. HIDE DEF full, r
<1>5. /\ r \in Bucket /\ r.used /\ r.tokens = full /\ r.last_refill = now
  BY <1>1, <1>2, <1>6, <1>16, Zenon DEF Bucket
<1>7. /\ c \in Bucket /\ c.used /\ c.last_refill = now
      /\ c.tokens = (IF full < 1 THEN full ELSE full - 1)
  BY <1>1, <1>5, <1>6 DEF Taken, Bucket
<1>. HIDE DEF c
<1>8. table' = [table EXCEPT ![s] = c]
  BY DEF rate_limit_check, c, r, k
<1>9. last' = [ok |-> full >= 1, new |-> ~known, pause |-> pause]
  BY <1>3, <1>5 DEF rate_limit_check, r, k
<1>10. PICK new \in BOOLEAN :
         /\ new \/ known
         /\ since' = [since EXCEPT ![s] = IF new THEN now ELSE @]
         /\ granted' = [granted EXCEPT ![s] =
              IF new THEN (IF full >= 1 THEN 1 ELSE 0)
              ELSE @ + (IF full >= 1 THEN 1 ELSE 0)]
  BY <1>5, ZenonT(60) DEF rate_limit_check, r, k
<1>11. /\ table' \in [Slots -> Bucket] /\ table'[s] = c
       /\ since' \in [Slots -> Int] /\ granted' \in [Slots -> Nat]
       /\ \A q \in Slots \ {s} : /\ table'[q] = table[q] /\ since'[q] = since[q]
                                 /\ granted'[q] = granted[q]
  BY <1>1, <1>7, <1>8, <1>10 DEF TypeOK
<1>12. \/ /\ since'[s] = now /\ granted'[s] = IF full >= 1 THEN 1 ELSE 0
       \/ /\ known /\ since'[s] = since[s]
          /\ granted'[s] = granted[s] + (IF full >= 1 THEN 1 ELSE 0)
  BY <1>1, <1>10 DEF TypeOK
<1>13. now' = now /\ setback' = setback
  BY DEF rate_limit_check
<1>14. /\ last'.ok = (full >= 1) /\ last'.new = (~known) /\ last'.pause = pause
       /\ last' \in [ok : BOOLEAN, new : BOOLEAN, pause : Int]
  BY <1>3, <1>9
<1>. QED
  BY <1>7, <1>11, <1>12, <1>13, <1>14 DEF CheckFacts, full, n, base, pause

\* Conserved is inductive together with the typing.
LEMMA NextConserved == TypeOK /\ Conserved /\ [Next]_vars => TypeOK' /\ Conserved'
<1>. SUFFICES ASSUME TypeOK, Conserved, [Next]_vars
              PROVE  TypeOK' /\ Conserved'
  OBVIOUS
<1>1. CASE UNCHANGED vars
  BY <1>1 DEF vars, TypeOK, Conserved, Bucket
<1>2. CASE Tick
  BY <1>2 DEF Tick, TypeOK, Conserved, Bucket
<1>3. ASSUME NEW ip \in Ips, NEW restart \in BOOLEAN,
             rate_limit_check(ip, restart)
      PROVE  TypeOK' /\ Conserved'
  <2>. DEFINE s == Hash[ip]
              b == table[s]
              known == b.used /\ b.ip = ip
              base == IF known THEN b.tokens ELSE Burst
              pause == IF known THEN now - b.last_refill ELSE 0
              n == base + pause * Rate
              full == IF n > Burst THEN Burst ELSE n
              one == IF full >= 1 THEN 1 ELSE 0
  <2>1. CheckFacts(ip)
    BY <1>3, CheckDoes, SMTT(30)
  <2>2. TypeOK'
    BY <2>1 DEF CheckFacts, TypeOK, Bucket
  <2>3. /\ s \in Slots /\ b \in Bucket /\ b.tokens \in Int /\ b.tokens <= Burst
        /\ b.last_refill \in Int /\ now \in Int /\ since[s] \in Int
        /\ granted[s] \in Nat /\ Rate \in Nat /\ Burst \in Nat
    BY RateAssumption DEF TypeOK, Bucket
  <2>4. base \in Int /\ pause \in Int
    BY <2>3
  <2>5. n \in Int
    BY <2>3, <2>4
  <2>6. /\ table'[s].tokens = full - one /\ table'[s].last_refill = now
        /\ \/ since'[s] = now /\ granted'[s] = one
           \/ known /\ since'[s] = since[s] /\ granted'[s] = granted[s] + one
        /\ \A q \in Slots \ {s} : /\ table'[q] = table[q] /\ since'[q] = since[q]
                                  /\ granted'[q] = granted[q]
    <3>1. /\ table'[s].tokens = (IF full < 1 THEN full ELSE full - 1)
          /\ table'[s].last_refill = now
          /\ \/ since'[s] = now /\ granted'[s] = one
             \/ known /\ since'[s] = since[s] /\ granted'[s] = granted[s] + one
          /\ \A q \in Slots \ {s} : /\ table'[q] = table[q] /\ since'[q] = since[q]
                                    /\ granted'[q] = granted[q]
      BY <2>1, ZenonT(60) DEF CheckFacts
    <3>. HIDE DEF n
    <3>. QED
      BY <2>3, <2>5, <3>1
  <2>7. granted'[s] + table'[s].tokens <= Burst + Rate * (now - since'[s])
    <3>1. CASE since'[s] = now /\ granted'[s] = one
      <4>1. Rate * (now - since'[s]) = 0
        BY <2>3, <3>1, MulZero
      <4>. HIDE DEF n
      <4>. QED
        BY <2>3, <2>5, <2>6, <3>1, <4>1
    <3>2. CASE known /\ since'[s] = since[s] /\ granted'[s] = granted[s] + one
      <4>1. granted[s] + b.tokens <= Burst + Rate * (b.last_refill - since[s])
        BY <2>3, <3>2 DEF Conserved
      <4>2. Rate * (now - since[s])
              = Rate * (b.last_refill - since[s]) + (now - b.last_refill) * Rate
        BY <2>3, MulSplit
      <4>3. n = b.tokens + (now - b.last_refill) * Rate
        BY <3>2
      <4>. DEFINE x == Rate * (b.last_refill - since[s])
                  y == (now - b.last_refill) * Rate
      <4>4. x \in Int /\ y \in Int
        BY <2>3
      <4>5. Rate * (now - since'[s]) = x + y
        BY <3>2, <4>2
      <4>6. n = b.tokens + y /\ granted[s] + b.tokens <= Burst + x
        BY <4>1, <4>3, SMTT(30)
      <4>. HIDE DEF n, x, y
      <4>. QED
        BY <2>3, <2>5, <2>6, <3>2, <4>4, <4>5, <4>6
    <3>. QED
      BY <2>6, <3>1, <3>2
  <2>8. Conserved'
    BY <2>6, <2>7 DEF Conserved
  <2>. QED
    BY <2>2, <2>8
<1>. QED
  BY <1>1, <1>2, <1>3 DEF Next

\* rate_limit_check never grants more than the bucket was given: capacity
\* plus refill, from any request on, whatever the clock does.
THEOREM TokensConserved == Spec => []Conserved
<1>. QED
  BY InitType, NextConserved, PTL DEF Spec

-----------------------------------------------------------------------------
(* A clock that was not set back *)

InOrder ==
  ~setback =>
  \A s \in Slots : /\ since[s] <= now /\ (~table[s].used => granted[s] = 0)
                   /\ table[s].used => /\ 0 <= table[s].tokens
                                       /\ table[s].last_refill <= now

\* The clock starts in order.
LEMMA InitInOrder == Init => InOrder /\ ServedAfterPause
<1>. SUFFICES ASSUME Init PROVE InOrder /\ ServedAfterPause
  OBVIOUS
<1>1. \A s \in Slots : table[s].used = FALSE
  BY DEF Init
<1>. QED
  BY <1>1 DEF Init, InOrder, ServedAfterPause

\* Until the clock is set back, no bucket is in debt or in the future.
LEMMA NextInOrder ==
  ASSUME TypeOK, InOrder, ServedAfterPause, [Next]_vars
  PROVE  InOrder' /\ ServedAfterPause'
<1>1. CASE UNCHANGED vars
  BY <1>1 DEF vars, InOrder, ServedAfterPause
<1>2. CASE Tick
  <2>. SUFFICES ASSUME ~setback' PROVE InOrder' /\ ServedAfterPause'
    BY DEF InOrder, ServedAfterPause
  <2>0. ~setback /\ ~(now' < now) /\ UNCHANGED <<table, since, granted, last>>
    BY <1>2, Zenon DEF Tick
  <2>1. now \in Int /\ now' \in Int /\ now' > now
    <3>1. now' \in 0..MaxNow \ {now}
      BY <1>2 DEF Tick
    <3>. QED
      BY <2>0, <3>1, RateAssumption DEF TypeOK
  <2>2. \A s \in Slots : since[s] \in Int /\ table[s].last_refill \in Int
    BY DEF TypeOK, Bucket
  <2>. QED
    BY <2>0, <2>1, <2>2 DEF InOrder, ServedAfterPause
<1>3. ASSUME NEW ip \in Ips, NEW restart \in BOOLEAN,
             rate_limit_check(ip, restart)
      PROVE  InOrder' /\ ServedAfterPause'
  <2>. DEFINE s == Hash[ip]
              b == table[s]
              known == b.used /\ b.ip = ip
              base == IF known THEN b.tokens ELSE Burst
              pause == IF known THEN now - b.last_refill ELSE 0
              y == pause * Rate
              full == IF base + y > Burst THEN Burst ELSE base + y
  <2>. SUFFICES ASSUME ~setback' PROVE InOrder' /\ ServedAfterPause'
    BY DEF InOrder, ServedAfterPause
  <2>0. setback' = setback
    BY ONLY <1>3, Zenon DEF rate_limit_check
  <2>1. CheckFacts(ip) /\ ~setback
    BY <1>3, <2>0, CheckDoes, Zenon
  <2>2. /\ s \in Slots /\ b.tokens \in Int /\ b.last_refill \in Int /\ now \in Int
        /\ since[s] \in Int /\ Rate \in Nat /\ Burst \in Nat
        /\ b.used => 0 <= b.tokens /\ b.last_refill <= now
    BY <2>1, RateAssumption DEF TypeOK, Bucket, InOrder
  <2>3. base \in Nat /\ pause \in Nat
    BY <2>2
  <2>4. y \in Nat /\ Rate * pause = y
    <3>. HIDE DEF pause
    <3>. QED
      BY <2>2, <2>3, MulNat
  <2>5. known \/ y = 0
    BY <2>2, SMTT(30)
  <2>6. /\ table'[s].tokens = (IF full < 1 THEN full ELSE full - 1)
        /\ table'[s].used /\ table'[s].last_refill = now /\ now' = now
        /\ since'[s] = now \/ since'[s] = since[s]
        /\ last'.ok = (full >= 1) /\ last'.new = (~known) /\ last'.pause = pause
        /\ \A q \in Slots \ {s} : /\ table'[q] = table[q] /\ since'[q] = since[q]
                                  /\ granted'[q] = granted[q]
    BY <2>1 DEF CheckFacts
  <2>7. full \in Nat
    <3>. HIDE DEF base, y
    <3>. QED
      BY <2>2, <2>3, <2>4
  <2>8. InOrder'
    <3>0. since[s] <= now
      BY <2>1, <2>2, Zenon DEF InOrder
    <3>1. 0 <= table'[s].tokens /\ since'[s] <= now
      <4>. HIDE DEF full, known, pause
      <4>. QED
        BY ONLY <2>2, <2>6, <2>7, <3>0
    <3>. HIDE DEF full, known, pause
    <3>. QED
      BY <2>1, <2>2, <2>6, <3>1 DEF InOrder
  <2>9. ServedAfterPause'
    <3>1. CASE full >= 1
      BY <2>6, <3>1, Zenon DEF ServedAfterPause
    <3>2. CASE Burst < 1
      BY <3>2 DEF ServedAfterPause
    <3>3. CASE full < 1 /\ ~(Burst < 1)
      <4>1. base + y < 1 /\ y < 1 /\ base < 1
        <5>. HIDE DEF base, y
        <5>. QED
          BY <2>2, <2>3, <2>4, <3>3
      <4>2. known
        BY <3>3, <4>1, <2>2
      <4>3. last'.new = FALSE /\ Rate * last'.pause < 1
        BY <2>4, <2>6, <4>1, <4>2, Zenon
      <4>. QED
        BY <4>3 DEF ServedAfterPause
    <3>. QED
      BY <2>2, <2>7, <3>1, <3>2, <3>3
  <2>. QED
    BY <2>8, <2>9
<1>. QED
  BY <1>1, <1>2, <1>3 DEF Next

\* The rate bound follows from conservation when no bucket is in debt.
LEMMA BoundFromConserved == TypeOK /\ Conserved /\ InOrder => RateBound
<1>. SUFFICES ASSUME TypeOK, Conserved, InOrder, ~setback, NEW s \in Slots
              PROVE  granted[s] <= Burst + Rate * (now - since[s])
  BY DEF RateBound
<1>. DEFINE t == table[s].last_refill
            x == Rate * (t - since[s])
            y == (now - t) * Rate
<1>1. /\ t \in Int /\ now \in Int /\ since[s] \in Int /\ Rate \in Nat
      /\ Burst \in Nat /\ granted[s] \in Nat /\ table[s].tokens \in Int
      /\ table[s].used \in BOOLEAN
  BY RateAssumption DEF TypeOK, Bucket
<1>2. CASE table[s].used
  <2>1. granted[s] + table[s].tokens <= Burst + x /\ 0 <= table[s].tokens
    BY <1>2 DEF Conserved, InOrder
  <2>2. now - t \in Nat
    BY <1>1, <1>2 DEF InOrder
  <2>3. Rate * (now - since[s]) = x + y
    BY <1>1, MulSplit
  <2>4. x \in Int
    BY <1>1
  <2>5. y \in Nat
    BY <1>1, <2>2, MulNat
  <2>. HIDE DEF x, y
  <2>. QED
    BY <1>1, <2>1, <2>3, <2>4, <2>5
<1>3. CASE ~table[s].used
  <2>1. granted[s] = 0 /\ now - since[s] \in Nat
    BY <1>1, <1>3 DEF InOrder
  <2>2. Rate * (now - since[s]) \in Nat
    BY <1>1, <2>1, MulNat
  <2>. QED
    BY <1>1, <2>1, <2>2
<1>. QED
  BY <1>1, <1>2, <1>3

\* What is inductive about the buckets.
LEMMA NextAll ==
  TypeOK /\ Conserved /\ InOrder /\ ServedAfterPause /\ [Next]_vars
  => TypeOK' /\ Conserved' /\ InOrder' /\ ServedAfterPause'
<1>. QED
  BY NextConserved, NextInOrder

\* As long as the clock is not set back an address gets, in any period, at
\* most burst requests over its rate.
THEOREM RateLimited == Spec => []RateBound
<1>. QED
  BY NextAll, InitType, InitInOrder, BoundFromConserved, PTL DEF Spec

\* As long as the clock is not set back an address is refused only within one
\* token's time of its previous request: the other side of the documented limit.
THEOREM PauseServed == Spec => []ServedAfterPause
<1>. QED
  BY NextAll, InitType, InitInOrder, PTL DEF Spec
=============================================================================
