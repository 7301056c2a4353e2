------------------------------ MODULE Upstream ------------------------------
(***************************************************************************)
(* upstream.c and balancer.c, driven the way proxy_handle and              *)
(* proxy_on_upstream_event drive them: which backend a request goes to,    *)
(* how backends are counted, marked unhealthy and how many idle sockets    *)
(* are kept.  Which socket is which is the business of module Worker.      *)
(*                                                                         *)
(* History variables: inflight, failures, streak and waited record what    *)
(* happened to each backend; the code does not read them.                  *)
(***************************************************************************)
EXTENDS Integers

CONSTANTS
  Count,         \* pool->count
  Keepalive,     \* pool->keepalive_conns
  IdleMax,       \* length of idle_fds, 64
  ErrorLimit,    \* errors a backend may have and stay in rotation, 5
  MaxRequests    \* bound: requests in a behaviour

ASSUME UpstreamAssumption ==
  /\ Count \in Nat /\ Keepalive \in Int /\ IdleMax \in Nat /\ ErrorLimit \in Nat
  /\ MaxRequests \in Nat

Index == 0..(Count - 1)

VARIABLES
  mode,          \* pool->mode, from the configuration
  active_conns, error_count, healthy, idle_count,   \* of each backend
  rr_index,
  requests,      \* requests so far
  refused,       \* the last request was answered 503
  inflight,      \* exchanges in progress
  failures,      \* exchanges that failed
  streak,        \* failures since the last exchange that succeeded
  waited         \* selections since the backend was last selected

pool == <<active_conns, error_count, healthy, idle_count, rr_index>>
vars == <<mode, pool, requests, refused, inflight, failures, streak, waited>>

Init ==
  /\ mode \in {"round_robin", "least_conn"}
  /\ active_conns = [b \in Index |-> 0] /\ error_count = [b \in Index |-> 0]
  /\ healthy = [b \in Index |-> TRUE] /\ idle_count = [b \in Index |-> 0]
  /\ rr_index = 0 /\ requests = 0 /\ refused = FALSE
  /\ inflight = [b \in Index |-> 0] /\ failures = [b \in Index |-> 0]
  /\ streak = [b \in Index |-> 0] /\ waited = [b \in Index |-> 0]

\* How far the loop of balancer_round_robin is from index b: its counter i
\* with (rr_index + i) % count = b.
Ahead(b) == IF b >= rr_index THEN b - rr_index ELSE b - rr_index + Count

\* The first healthy backend from rr_index on.
balancer_round_robin(b) ==
  healthy[b] /\ \A a \in Index : healthy[a] => Ahead(b) <= Ahead(a)

\* Mutant: a backend with one connection more than the fewest is taken too.
LeastConnOffByOne(b) ==
  healthy[b] /\ \A a \in Index : healthy[a] => active_conns[b] <= active_conns[a] + 1

\* The first healthy backend with the fewest active_conns.
balancer_least_conn(b) ==
  /\ healthy[b]
  /\ \A a \in Index : healthy[a] =>
       \/ active_conns[b] < active_conns[a]
       \/ active_conns[b] = active_conns[a] /\ b <= a

\* Mutant: rr_index is left at the backend that was chosen.
AfterSame(b) == b

\* The index after b.
After(b) == IF b + 1 = Count THEN 0 ELSE b + 1

\* upstream_select returns b; active_conns is left to the caller's action.
upstream_select(b) ==
  /\ IF mode = "least_conn"
     THEN balancer_least_conn(b) /\ rr_index' = rr_index
     ELSE balancer_round_robin(b) /\ rr_index' = After(b)
  /\ waited' = [a \in Index |-> IF a = b THEN 0 ELSE waited[a] + 1]

\* Mutant: the error is counted twice against the limit.
ReleaseErrorEarly(b) ==
  /\ active_conns' = active_conns
  /\ error_count' = [error_count EXCEPT ![b] = @ + 2]
  /\ healthy' = [healthy EXCEPT ![b] = @ /\ error_count[b] + 2 <= ErrorLimit]

\* Mutant: active_conns is decremented although upstream_select's count was
\* already taken back.
ReleaseErrorTwice(b) ==
  /\ active_conns' = [active_conns EXCEPT ![b] = IF @ > 0 THEN @ - 1 ELSE 0]
  /\ error_count' = [error_count EXCEPT ![b] = @ + 1]
  /\ healthy' = [healthy EXCEPT ![b] = @ /\ error_count[b] + 1 <= ErrorLimit]

\* upstream_release(be, true): the count of upstream_select is taken back.
ReleaseError(b) ==
  /\ active_conns' = active_conns
  /\ error_count' = [error_count EXCEPT ![b] = @ + 1]
  /\ healthy' = [healthy EXCEPT ![b] = @ /\ error_count[b] + 1 <= ErrorLimit]

Failed(b) ==
  /\ failures' = [failures EXCEPT ![b] = @ + 1]
  /\ streak' = [streak EXCEPT ![b] = @ + 1]

Admit == requests < MaxRequests /\ requests' = requests + 1

\* upstream_get_connection has an idle socket or starts a connect.
Start(b) ==
  /\ Admit /\ refused' = FALSE /\ upstream_select(b)
  /\ active_conns' = [active_conns EXCEPT ![b] = @ + 1]
  /\ idle_count' = [idle_count EXCEPT ![b] = IF @ > 0 THEN @ - 1 ELSE 0]
  /\ inflight' = [inflight EXCEPT ![b] = @ + 1]
  /\ UNCHANGED <<error_count, healthy, failures, streak>>

\* No idle socket, and the connect fails at once: 502.
StartFails(b) ==
  /\ Admit /\ refused' = FALSE /\ upstream_select(b) /\ idle_count[b] = 0
  /\ ReleaseError(b) /\ Failed(b)
  /\ UNCHANGED <<idle_count, inflight>>

\* upstream_select returns NULL: 503.
Refuse ==
  /\ Admit /\ refused' = TRUE
  /\ \A b \in Index : ~(IF mode = "least_conn" THEN balancer_least_conn(b)
                        ELSE balancer_round_robin(b))
  /\ UNCHANGED <<pool, inflight, failures, streak, waited>>

\* The response has ended: upstream_put_connection keeps the socket, or
\* closes it when enough are idle.  A tunnel's socket is closed.
Complete(b) ==
  /\ inflight[b] > 0 /\ inflight' = [inflight EXCEPT ![b] = @ - 1]
  /\ \/ idle_count' = [idle_count EXCEPT ![b] =
                         IF @ < Keepalive /\ @ < IdleMax THEN @ + 1 ELSE @]
     \/ UNCHANGED idle_count
  /\ streak' = [streak EXCEPT ![b] = 0]
  /\ UNCHANGED <<active_conns, error_count, healthy, rr_index, requests,
                 refused, failures, waited>>

\* The connect that was started fails later, or a read or a write does: the
\* socket is closed and the backend's record is not touched.
Abort(b) ==
  /\ inflight[b] > 0 /\ inflight' = [inflight EXCEPT ![b] = @ - 1] /\ Failed(b)
  /\ UNCHANGED <<pool, requests, refused, waited>>

\* The client leaves first: conn_close closes the socket, and neither a success
\* nor an error is recorded.
ClientLeaves(b) ==
  /\ inflight[b] > 0 /\ inflight' = [inflight EXCEPT ![b] = @ - 1]
  /\ UNCHANGED <<pool, requests, refused, failures, streak, waited>>

Next ==
  /\ mode' = mode
  /\ \/ Refuse
     \/ \E b \in Index : \/ Start(b) \/ StartFails(b)
                          \/ Complete(b) \/ Abort(b) \/ ClientLeaves(b)

Spec == Init /\ [][Next]_vars

-----------------------------------------------------------------------------
Counters == [Index -> Nat]

TypeOK ==
  /\ mode \in {"round_robin", "least_conn"}
  /\ {active_conns, error_count, idle_count, inflight, failures, streak, waited}
       \subseteq Counters
  /\ healthy \in [Index -> BOOLEAN] /\ requests \in 0..MaxRequests
  /\ rr_index \in Index \cup {0} /\ refused \in BOOLEAN

\* The array idle_fds[64] and the configured limit are respected, also when
\* keepalive_conns is larger than 64 or negative.
IdleBounded ==
  \A b \in Index : idle_count[b] > 0 => /\ idle_count[b] <= Keepalive
                                         /\ idle_count[b] <= IdleMax

\* proxy.md:27: round robin passes over a healthy backend at most Count - 1
\* times in a row, however the others fail and drop out.
RoundRobinFair ==
  mode = "round_robin" =>
    \A b \in Index : healthy[b] => waited[b] < Count

\* A request is answered 503 only when every backend is out of rotation, and
\* a backend goes out of rotation only after more than ErrorLimit failures.
RefusedOnlyIfDown ==
  /\ refused => \A b \in Index : ~healthy[b]
  /\ \A b \in Index : ~healthy[b] => failures[b] > ErrorLimit

\* In least_conn mode the counters of two backends in rotation differ by at
\* most one, so requests are spread evenly whatever fails.
LeastConnEven ==
  mode = "least_conn" =>
    \A a, b \in Index : healthy[a] /\ healthy[b] => active_conns[a] <= active_conns[b] + 1

\* No exchange is forgotten: active_conns is never below the exchanges that
\* are in progress at the backend.
ActiveCoversInFlight == \A b \in Index : inflight[b] <= active_conns[b]

\* proxy.md:38: the count least_conn compares is that of the connections that
\* are active at that moment.
ActiveIsInFlight == \A b \in Index : active_conns[b] = inflight[b]

\* proxy.md:54: a connection or proxy error increments error_count.
ErrorsCounted == \A b \in Index : error_count[b] = failures[b]

\* proxy.md:55-56: a backend is out of rotation after five errors in a row,
\* and in rotation again after a success.
HealthFollowsStreak == \A b \in Index : ~healthy[b] => streak[b] >= ErrorLimit
=============================================================================
