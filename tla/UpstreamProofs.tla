--------------------------- MODULE UpstreamProofs ---------------------------
(***************************************************************************)
(* Load balancing and the idle limit for any number of backends, any       *)
(* limits and any pattern of failures.  RoundRobinFair is not inductive:   *)
(* how often a backend was passed over has to be traded against how far    *)
(* ahead of rr_index it still is.                                          *)
(***************************************************************************)
EXTENDS Upstream, TLAPS

Turn == mode = "round_robin" =>
          \A b \in Index : healthy[b] => waited[b] + Ahead(b) <= Count - 1

Inv == /\ TypeOK /\ Turn /\ IdleBounded /\ LeastConnEven /\ ActiveCoversInFlight

\* Nothing has been counted yet.
LEMMA InitInv == Init => Inv
<1>. SUFFICES ASSUME Init PROVE Inv
  OBVIOUS
<1>0. /\ [b \in Index |-> 0] \in Counters
      /\ [b \in Index |-> TRUE] \in [Index -> BOOLEAN] /\ 0 \in 0..MaxRequests
  BY UpstreamAssumption DEF Counters
<1>1. TypeOK
  BY <1>0 DEF Init, TypeOK
<1>2. Turn /\ IdleBounded /\ LeastConnEven /\ ActiveCoversInFlight
  BY UpstreamAssumption DEF Init, Turn, Ahead, Index, IdleBounded,
     LeastConnEven, ActiveCoversInFlight
<1>. QED
  BY <1>1, <1>2 DEF Inv

\* Selecting b: the index moves behind b, and every other healthy backend is
\* at least one place nearer.
LEMMA SelectTurn ==
  ASSUME Inv, NEW b \in Index, upstream_select(b),
         mode' = mode, healthy' \in [Index -> BOOLEAN], \A a \in Index : healthy'[a] => healthy[a]
  PROVE  /\ Turn' /\ rr_index' \in Index \cup {0} /\ waited' \in Counters
         /\ (mode = "least_conn" => balancer_least_conn(b))
<1>1. Count \in Nat /\ b \in 0..(Count - 1) /\ rr_index \in 0..(Count - 1)
  BY UpstreamAssumption DEF Inv, TypeOK, Index
<1>2. waited \in Counters
  BY DEF Inv, TypeOK
<1>3. waited' \in Counters
  BY <1>2 DEF upstream_select, Counters
<1>4. rr_index' \in Index \cup {0}
  BY <1>1 DEF upstream_select, After, Index, Inv, TypeOK
<1>5. Turn'
  <2>. SUFFICES ASSUME mode = "round_robin", NEW a \in Index, healthy'[a]
                PROVE  waited'[a] + Ahead(a)' <= Count - 1
    BY DEF Turn
  <2>1. balancer_round_robin(b) /\ rr_index' = After(b)
    BY DEF upstream_select
  <2>2. CASE a = b
    <3>1. waited'[a] = 0
      BY <2>2 DEF upstream_select
    <3>2. Ahead(a)' <= Count - 1
      BY <1>1, <2>1, <2>2 DEF Ahead, After
    <3>. QED
      BY <1>1, <3>1, <3>2, <2>1, <2>2 DEF Ahead, After
  <2>3. CASE a # b
    <3>1. waited'[a] = waited[a] + 1 /\ waited[a] \in Nat
      BY <1>2, <2>3 DEF upstream_select, Counters
    <3>2. waited[a] + Ahead(a) <= Count - 1 /\ Ahead(b) <= Ahead(a)
      BY <2>1 DEF Inv, Turn, balancer_round_robin
    <3>3. a \in 0..(Count - 1)
      BY DEF Index
    <3>4. Ahead(a)' <= Ahead(a) - 1 /\ Ahead(a) \in Int /\ Ahead(a)' \in Int
      BY <1>1, <2>1, <2>3, <3>2, <3>3 DEF Ahead, After
    <3>. QED
      BY <1>1, <3>1, <3>2, <3>4
  <2>. QED
    BY <2>2, <2>3
<1>6. mode = "least_conn" => balancer_least_conn(b)
  BY DEF upstream_select
<1>. QED
  BY <1>3, <1>4, <1>5, <1>6

\* A request that gets a socket.
LEMMA StartInv == ASSUME NEW b \in Index PROVE Inv /\ mode' = mode /\ Start(b) => Inv'
<1>. SUFFICES ASSUME Inv, mode' = mode, Start(b) PROVE Inv'
  OBVIOUS
<1>0. TypeOK /\ IdleBounded /\ LeastConnEven /\ ActiveCoversInFlight
  BY DEF Inv
<1>1. /\ upstream_select(b) /\ requests' = requests + 1 /\ requests < MaxRequests
      /\ refused' = FALSE /\ UNCHANGED <<error_count, healthy, failures, streak>>
      /\ active_conns' = [active_conns EXCEPT ![b] = @ + 1]
      /\ idle_count' = [idle_count EXCEPT ![b] = IF @ > 0 THEN @ - 1 ELSE 0]
      /\ inflight' = [inflight EXCEPT ![b] = @ + 1]
  BY DEF Start, Admit
<1>2. /\ Turn' /\ rr_index' \in Index \cup {0} /\ waited' \in Counters
      /\ (mode = "least_conn" => balancer_least_conn(b))
  BY <1>0, <1>1, SelectTurn DEF TypeOK
<1>3. /\ active_conns' \in Counters /\ idle_count' \in Counters
      /\ inflight' \in Counters
  BY <1>0, <1>1 DEF TypeOK, Counters
<1>4. TypeOK'
  <2>1. requests' \in 0..MaxRequests
    BY <1>0, <1>1, UpstreamAssumption DEF TypeOK
  <2>. QED
    BY <1>0, <1>1, <1>2, <1>3, <2>1 DEF TypeOK
<1>5. IdleBounded'
  BY <1>0, <1>1, UpstreamAssumption DEF TypeOK, Counters, IdleBounded
<1>6. LeastConnEven'
  BY <1>0, <1>1, <1>2 DEF TypeOK, Counters, LeastConnEven, balancer_least_conn
<1>7. ActiveCoversInFlight'
  BY <1>0, <1>1 DEF TypeOK, Counters, ActiveCoversInFlight
<1>. QED
  BY <1>2, <1>4, <1>5, <1>6, <1>7 DEF Inv

\* A request whose connect fails at once.
LEMMA StartFailsInv ==
  ASSUME NEW b \in Index PROVE Inv /\ mode' = mode /\ StartFails(b) => Inv'
<1>. SUFFICES ASSUME Inv, mode' = mode, StartFails(b) PROVE Inv'
  OBVIOUS
<1>0. TypeOK /\ IdleBounded /\ LeastConnEven /\ ActiveCoversInFlight
  BY DEF Inv
<1>1. /\ upstream_select(b) /\ requests' = requests + 1 /\ requests < MaxRequests
      /\ refused' = FALSE /\ UNCHANGED <<active_conns, idle_count, inflight>>
      /\ error_count' = [error_count EXCEPT ![b] = @ + 1]
      /\ failures' = [failures EXCEPT ![b] = @ + 1]
      /\ streak' = [streak EXCEPT ![b] = @ + 1]
      /\ healthy' = [healthy EXCEPT ![b] = @ /\ error_count[b] + 1 <= ErrorLimit]
  BY DEF StartFails, Admit, ReleaseError, Failed
<1>2. healthy' \in [Index -> BOOLEAN] /\ \A a \in Index : healthy'[a] => healthy[a]
  BY <1>0, <1>1 DEF TypeOK
<1>3. Turn' /\ rr_index' \in Index \cup {0} /\ waited' \in Counters
  BY <1>1, <1>2, SelectTurn
<1>4. error_count' \in Counters /\ failures' \in Counters /\ streak' \in Counters
  BY <1>0, <1>1 DEF TypeOK, Counters
<1>5. requests' \in 0..MaxRequests
  BY <1>0, <1>1, UpstreamAssumption DEF TypeOK
<1>6. TypeOK'
  BY <1>0, <1>1, <1>2, <1>3, <1>4, <1>5 DEF TypeOK
<1>7. IdleBounded' /\ LeastConnEven' /\ ActiveCoversInFlight'
  BY <1>0, <1>1, <1>2 DEF IdleBounded, LeastConnEven, ActiveCoversInFlight
<1>. QED
  BY <1>3, <1>6, <1>7 DEF Inv

\* The three ways an exchange ends.
LEMMA EndInv ==
  ASSUME NEW b \in Index
  PROVE  Inv /\ mode' = mode /\ (Complete(b) \/ Abort(b) \/ ClientLeaves(b)) => Inv'
<1>. SUFFICES ASSUME Inv, mode' = mode, Complete(b) \/ Abort(b) \/ ClientLeaves(b)
              PROVE  Inv'
  OBVIOUS
<1>0. TypeOK /\ Turn /\ IdleBounded /\ LeastConnEven /\ ActiveCoversInFlight
  BY DEF Inv
<1>1. /\ inflight[b] > 0 /\ inflight' = [inflight EXCEPT ![b] = @ - 1]
      /\ UNCHANGED <<active_conns, error_count, healthy, rr_index, requests,
                     refused, waited>>
  BY DEF Complete, Abort, ClientLeaves, pool
<1>2. /\ failures' \in Counters /\ streak' \in Counters /\ inflight' \in Counters
  BY <1>0, <1>1 DEF Complete, Abort, ClientLeaves, Failed, TypeOK, Counters
<1>3. idle_count' \in Counters /\ IdleBounded'
  <2>1. CASE idle_count' = idle_count
    BY <1>0, <2>1 DEF TypeOK, IdleBounded
  <2>2. CASE idle_count' = [idle_count EXCEPT ![b] =
                              IF @ < Keepalive /\ @ < IdleMax THEN @ + 1 ELSE @]
    BY <1>0, <2>2, UpstreamAssumption DEF TypeOK, Counters, IdleBounded
  <2>. QED
    BY <2>1, <2>2 DEF Complete, Abort, ClientLeaves, pool
<1>4. TypeOK'
  BY <1>0, <1>1, <1>2, <1>3 DEF TypeOK
<1>5. Turn' /\ LeastConnEven'
  BY <1>0, <1>1 DEF Turn, Ahead, LeastConnEven
<1>6. ActiveCoversInFlight'
  BY <1>0, <1>1 DEF TypeOK, Counters, ActiveCoversInFlight
<1>. QED
  BY <1>3, <1>4, <1>5, <1>6 DEF Inv

\* Inv is inductive.
LEMMA NextInv == Inv /\ [Next]_vars => Inv'
<1>. SUFFICES ASSUME Inv, [Next]_vars PROVE Inv'
  OBVIOUS
<1>1. CASE UNCHANGED vars
  BY <1>1 DEF vars, pool, Inv, TypeOK, Turn, Ahead, IdleBounded, LeastConnEven,
     ActiveCoversInFlight
<1>2. CASE mode' = mode /\ Refuse
  <2>1. requests' \in 0..MaxRequests
    BY <1>2, UpstreamAssumption DEF Refuse, Admit, Inv, TypeOK
  <2>. QED
    BY <1>2, <2>1 DEF Refuse, pool, Inv, TypeOK, Turn, Ahead, IdleBounded,
       LeastConnEven, ActiveCoversInFlight
<1>. QED
  BY <1>1, <1>2, StartInv, StartFailsInv, EndInv DEF Next

\* No healthy backend is passed over Count times in a row by round robin,
\* whichever backends leave the rotation meanwhile.
THEOREM BalancerFair == Spec => []RoundRobinFair
<1>1. Inv => RoundRobinFair
  <2>. SUFFICES ASSUME Inv, mode = "round_robin", NEW b \in Index, healthy[b]
                PROVE  waited[b] < Count
    BY DEF RoundRobinFair
  <2>1. /\ Count \in Nat /\ b \in 0..(Count - 1) /\ rr_index \in 0..(Count - 1)
        /\ waited[b] \in Nat
    BY UpstreamAssumption DEF Inv, TypeOK, Index, Counters
  <2>2. waited[b] + Ahead(b) <= Count - 1
    BY DEF Inv, Turn
  <2>. QED
    BY <2>1, <2>2 DEF Ahead
<1>. QED
  BY <1>1, InitInv, NextInv, PTL DEF Spec

\* least_conn keeps the counts of the backends in rotation within one of each
\* other.
THEOREM LeastConnFair == Spec => []LeastConnEven
<1>1. Inv => LeastConnEven
  BY DEF Inv
<1>. QED
  BY <1>1, InitInv, NextInv, PTL DEF Spec

\* No exchange in progress is missing from active_conns, and idle_fds never
\* overflows.
THEOREM InFlightCounted == Spec => [](ActiveCoversInFlight /\ IdleBounded)
<1>1. Inv => ActiveCoversInFlight /\ IdleBounded
  BY DEF Inv
<1>. QED
  BY <1>1, InitInv, NextInv, PTL DEF Spec
=============================================================================
