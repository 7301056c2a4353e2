---------------------------- MODULE WorkerLemmas ----------------------------
(***************************************************************************)
(* The inductive invariant of the worker, and lemmas about the functions   *)
(* that move descriptors: event_loop.c, conn.c and the idle pools.         *)
(*                                                                         *)
(* The operators of Worker map states to states, so the invariant Sound is *)
(* a predicate on a state, and there is one lemma per C function: it takes *)
(* sound states to sound states.                                           *)
(***************************************************************************)
EXTENDS Worker, SequenceTheorems, TLAPS

StateT ==
  [conn : [Conns -> ConnT], heap : SUBSET Conns,
   free_head : Conns \cup {NONE}, free_count : Int,
   handlers : [Fds -> HandlerT \cup {NONE}], batch : Seq(EventT),
   fresh : SUBSET Fds, open : SUBSET Fds,
   peer : [Fds -> Backends \cup {NONE}], eof : SUBSET Fds,
   idle_fds : [Backends -> Seq(Fds)], active_conns : Int, accepted : Nat,
   phase : {"running", "stopping", "exited", "crashed"}]

Idle(s, f) == \E b \in Backends : \E i \in DOMAIN s.idle_fds[b] : s.idle_fds[b][i] = f

Registered(s) == \A f \in Fds : s.handlers[f] # NONE => f \in s.open

ClientHeld(s) ==
  \A c \in Conns, f \in Fds : s.conn[c].fd = f =>
    s.handlers[f] # NONE /\ s.handlers[f].fn = "client" /\ s.handlers[f].ctx = c

UpstreamHeld(s) ==
  \A c \in Conns, f \in Fds : s.conn[c].upstream_fd = f =>
    s.handlers[f] # NONE /\ s.handlers[f].fn = "upstream" /\ s.handlers[f].ctx = c

FileHeld(s) ==
  \A c \in Conns, f \in Fds : s.conn[c].file_fd = f =>
    /\ f \in s.open /\ s.handlers[f] = NONE /\ ~Idle(s, f)
    /\ \A d \in Conns \ {c} : s.conn[d].file_fd # f

IdleHeld(s) ==
  /\ \A b \in Backends : \A i \in DOMAIN s.idle_fds[b] :
       s.idle_fds[b][i] \in s.open /\ s.handlers[s.idle_fds[b][i]] = NONE
  /\ \A a, b \in Backends : \A i \in DOMAIN s.idle_fds[a], j \in DOMAIN s.idle_fds[b] :
       s.idle_fds[a][i] = s.idle_fds[b][j] => a = b /\ i = j

\* An event that is not marked freed, and a block that was allocated in this
\* batch, belong to a registered descriptor.
BatchLive(s) ==
  /\ \A i \in DOMAIN s.batch : s.batch[i].fd \in Fds /\ ~s.batch[i].freed
                               => s.handlers[s.batch[i].fd] # NONE
  /\ \A f \in s.fresh : s.handlers[f] # NONE

Sound(s) ==
  /\ s \in StateT
  /\ Registered(s) /\ ClientHeld(s) /\ UpstreamHeld(s)
  /\ FileHeld(s) /\ IdleHeld(s) /\ BatchLive(s)

\* A descriptor that is open and that nothing holds: just accepted, just
\* opened, just taken from the idle pool or just unlinked.
InHand(s, f) ==
  /\ f \in Fds /\ f \in s.open /\ s.handlers[f] = NONE /\ ~Idle(s, f)
  /\ \A c \in Conns : s.conn[c].file_fd # f

-----------------------------------------------------------------------------
\* What SetConn changes.
LEMMA SetConnFields ==
  ASSUME NEW s \in StateT, NEW c \in Conns, NEW r \in ConnT
  PROVE  LET t == SetConn(s, c, r)
         IN  /\ t \in StateT
             /\ t.conn = [s.conn EXCEPT ![c] = r]
             /\ t.handlers = s.handlers /\ t.open = s.open
             /\ t.batch = s.batch /\ t.fresh = s.fresh
             /\ t.idle_fds = s.idle_fds /\ t.phase = s.phase
             /\ t.heap = s.heap
BY Zenon DEF SetConn, StateT

\* Fields of a conn_t other than its descriptors may change freely.
LEMMA SetConnSound ==
  ASSUME NEW s, Sound(s), NEW c \in Conns, NEW r \in ConnT,
         r.fd = s.conn[c].fd, r.upstream_fd = s.conn[c].upstream_fd,
         r.file_fd = s.conn[c].file_fd
  PROVE  /\ Sound(SetConn(s, c, r))
         /\ SetConn(s, c, r).conn[c] = r
         /\ \A f : InHand(s, f) => InHand(SetConn(s, c, r), f)
<1>. DEFINE t == SetConn(s, c, r)
<1>1. /\ s \in StateT /\ s.conn \in [Conns -> ConnT]
      /\ Registered(s) /\ ClientHeld(s) /\ UpstreamHeld(s)
      /\ FileHeld(s) /\ IdleHeld(s) /\ BatchLive(s)
  BY DEF Sound, StateT
<1>2. /\ t \in StateT
      /\ t.conn = [s.conn EXCEPT ![c] = r]
      /\ t.handlers = s.handlers /\ t.open = s.open
      /\ t.batch = s.batch /\ t.fresh = s.fresh
      /\ t.idle_fds = s.idle_fds
  BY <1>1, SetConnFields
<1>. HIDE DEF t
<1>3. \A d \in Conns : /\ t.conn[d].fd = s.conn[d].fd
                       /\ t.conn[d].upstream_fd = s.conn[d].upstream_fd
                       /\ t.conn[d].file_fd = s.conn[d].file_fd
  BY <1>1, <1>2
<1>4. Registered(t) /\ IdleHeld(t) /\ BatchLive(t)
  BY <1>1, <1>2 DEF Registered, IdleHeld, BatchLive
<1>5. ClientHeld(t) /\ UpstreamHeld(t)
  BY <1>1, <1>2, <1>3 DEF ClientHeld, UpstreamHeld
<1>6. FileHeld(t)
  BY <1>1, <1>2, <1>3 DEF FileHeld, Idle
<1>7. \A f : InHand(s, f) => InHand(t, f)
  BY <1>2, <1>3 DEF InHand, Idle
<1>8. t.conn[c] = r
  BY <1>1, <1>2, SMTT(60)
<1>. QED
  BY <1>2, <1>4, <1>5, <1>6, <1>7, <1>8 DEF Sound, t

\* Sound depends on six fields only.
LEMMA SameSound ==
  ASSUME NEW s, Sound(s), NEW t \in StateT,
         t.conn = s.conn, t.handlers = s.handlers, t.open = s.open,
         t.batch = s.batch, t.fresh = s.fresh, t.idle_fds = s.idle_fds
  PROVE  Sound(t) /\ \A f : InHand(s, f) => InHand(t, f)
BY DEF Sound, Registered, ClientHeld, UpstreamHeld, FileHeld, IdleHeld,
       BatchLive, Idle, InHand

\* A crash only changes the phase.
LEMMA CrashSound ==
  ASSUME NEW s, Sound(s)
  PROVE  Sound(Crash(s)) /\ Crash(s).phase = "crashed"
<1>1. /\ Crash(s) \in StateT
      /\ Crash(s).conn = s.conn /\ Crash(s).handlers = s.handlers
      /\ Crash(s).open = s.open /\ Crash(s).batch = s.batch
      /\ Crash(s).fresh = s.fresh /\ Crash(s).idle_fds = s.idle_fds
      /\ Crash(s).phase = "crashed"
  BY Zenon DEF Sound, StateT, Crash
<1>. QED
  BY <1>1, SameSound

\* What close(fd) changes.
LEMMA CloseFields ==
  ASSUME NEW s \in StateT, NEW f \in Fds
  PROVE  LET t == Close(s, f)
         IN  /\ t \in StateT
             /\ t.open = s.open \ {f}
             /\ t.conn = s.conn /\ t.handlers = s.handlers
             /\ t.batch = s.batch /\ t.fresh = s.fresh
             /\ t.idle_fds = s.idle_fds /\ t.phase = s.phase
             /\ t.heap = s.heap
BY Zenon DEF Close, StateT

\* Only a descriptor that nothing holds may be closed.
LEMMA CloseSound ==
  ASSUME NEW s, Sound(s), NEW f, InHand(s, f)
  PROVE  Sound(Close(s, f)) /\ Close(s, f).conn = s.conn
<1>. DEFINE t == Close(s, f)
<1>1. /\ s \in StateT /\ f \in Fds
      /\ Registered(s) /\ ClientHeld(s) /\ UpstreamHeld(s)
      /\ FileHeld(s) /\ IdleHeld(s) /\ BatchLive(s)
  BY DEF Sound, InHand
<1>2. /\ t \in StateT /\ t.open = s.open \ {f}
      /\ t.conn = s.conn /\ t.handlers = s.handlers
      /\ t.batch = s.batch /\ t.fresh = s.fresh
      /\ t.idle_fds = s.idle_fds
  BY <1>1, CloseFields
<1>. HIDE DEF t
<1>3. Registered(t) /\ BatchLive(t)
  BY <1>1, <1>2 DEF Registered, BatchLive, InHand
<1>4. ClientHeld(t) /\ UpstreamHeld(t)
  BY <1>1, <1>2 DEF ClientHeld, UpstreamHeld
<1>5. FileHeld(t)
  BY <1>1, <1>2 DEF FileHeld, Idle, InHand
<1>6. IdleHeld(t)
  BY <1>1, <1>2, SMTT(60) DEF IdleHeld, Idle, InHand
<1>. QED
  BY <1>2, <1>3, <1>4, <1>5, <1>6 DEF Sound, t

-----------------------------------------------------------------------------
(* event_loop.c *)

\* From s to t, f got the handler h.
Controlled(s, t, f, h) ==
  /\ t \in StateT /\ t.handlers = [s.handlers EXCEPT ![f] = h]
  /\ t.fresh \subseteq s.fresh \cup {f}
  /\ t.conn = s.conn /\ t.open = s.open /\ t.batch = s.batch
  /\ t.idle_fds = s.idle_fds

\* What event_loop_add and event_loop_mod change.
LEMMA LoopCtlFields ==
  ASSUME NEW s \in StateT, NEW f \in Fds, NEW fn \in {"client", "upstream"},
         NEW c \in Conns, NEW ev \in SUBSET RW
  PROVE  Controlled(s, loop_ctl(s, f, fn, c, ev), f, [fn |-> fn, ctx |-> c, ev |-> ev])
<1>1. f # NONE
  BY WorkerAssumption
<1>2. [fn |-> fn, ctx |-> c, ev |-> ev] \in HandlerT
  BY DEF HandlerT
<1>. QED
  BY <1>1, <1>2, ZenonT(60) DEF Controlled, loop_ctl, StateT

\* Registering again the client descriptor of a conn_t, or an upstream
\* descriptor for the conn_t it is registered for.
LEMMA LoopCtlSound ==
  ASSUME NEW s, Sound(s), NEW f \in Fds, NEW fn \in {"client", "upstream"},
         NEW c \in Conns, NEW ev \in SUBSET RW,
         s.handlers[f] # NONE, s.handlers[f].fn = fn, s.handlers[f].ctx = c
  PROVE  LET t == loop_ctl(s, f, fn, c, ev)
         IN  /\ Sound(t) /\ t.conn = s.conn
             /\ t.handlers[f] # NONE /\ t.handlers[f].fn = fn
             /\ t.handlers[f].ctx = c
             /\ \A g \in Fds \ {f} : t.handlers[g] = s.handlers[g]
<1>. DEFINE t == loop_ctl(s, f, fn, c, ev)
            h == [fn |-> fn, ctx |-> c, ev |-> ev]
<1>1. /\ s \in StateT /\ s.handlers \in [Fds -> HandlerT \cup {NONE}]
      /\ Registered(s) /\ ClientHeld(s) /\ UpstreamHeld(s)
      /\ FileHeld(s) /\ IdleHeld(s) /\ BatchLive(s)
  BY DEF Sound, StateT
<1>2. /\ t \in StateT /\ t.handlers = [s.handlers EXCEPT ![f] = h]
      /\ t.fresh \subseteq s.fresh \cup {f}
      /\ t.conn = s.conn /\ t.open = s.open /\ t.batch = s.batch
      /\ t.idle_fds = s.idle_fds
  <2>1. Controlled(s, t, f, h)
    BY <1>1, LoopCtlFields
  <2>. HIDE DEF t, h
  <2>. QED
    BY ONLY <2>1 DEF Controlled
<1>3. h # NONE /\ h.fn = fn /\ h.ctx = c
  BY NoneIsNoHandler DEF HandlerT
<1>. HIDE DEF t, h
<1>4. /\ t.handlers[f] = h
      /\ \A g \in Fds \ {f} : t.handlers[g] = s.handlers[g]
  BY <1>1, <1>2
<1>5. \A g \in Fds : /\ t.handlers[g] = NONE <=> s.handlers[g] = NONE
                     /\ t.handlers[g] # NONE =>
                          /\ t.handlers[g].fn = s.handlers[g].fn
                          /\ t.handlers[g].ctx = s.handlers[g].ctx
  BY <1>3, <1>4
<1>6. Registered(t)
  BY <1>1, <1>2, <1>5, SMTT(60) DEF Registered
<1>7. ClientHeld(t) /\ UpstreamHeld(t)
  BY <1>1, <1>2, <1>5, SMTT(60) DEF ClientHeld, UpstreamHeld
<1>8. FileHeld(t)
  BY <1>1, <1>2, <1>5, SMTT(60) DEF FileHeld, Idle
<1>9. IdleHeld(t)
  <2>1. \A b \in Backends : \A i \in DOMAIN s.idle_fds[b] : s.idle_fds[b][i] \in Fds
    BY <1>1, SMTT(60) DEF StateT
  <2>. QED
    BY <1>1, <1>2, <1>5, <2>1 DEF IdleHeld
<1>10. BatchLive(t)
  BY <1>1, <1>2, <1>3, <1>4, <1>5, SMTT(60) DEF BatchLive, StateT
<1>. QED
  BY <1>2, <1>3, <1>4, <1>6, <1>7, <1>8, <1>9, <1>10 DEF Sound, t

\* A change of the client interest keeps the owner of the handler.
LEMMA ClientModSound ==
  ASSUME NEW s, Sound(s), NEW c \in Conns, NEW ev \in SUBSET RW
  PROVE  LET t == worker_client_event_mod(s, c, ev)
         IN  /\ Sound(t) /\ t.conn = s.conn
             /\ \A f \in Fds : s.handlers[f] # NONE =>
                  /\ t.handlers[f] # NONE
                  /\ t.handlers[f].fn = s.handlers[f].fn
                  /\ t.handlers[f].ctx = s.handlers[f].ctx
<1>1. CASE s.conn[c].fd = NONE
  <2>1. worker_client_event_mod(s, c, ev) = Crash(s)
    BY <1>1 DEF worker_client_event_mod, loop_ctl
  <2>2. Crash(s).conn = s.conn /\ Crash(s).handlers = s.handlers
    <3>1. s \in StateT
      BY Zenon DEF Sound
    <3>. QED
      BY ONLY <3>1 DEF StateT, Crash
  <2>. QED
    BY <2>1, <2>2, CrashSound
<1>2. CASE s.conn[c].fd # NONE
  <2>0. s \in StateT /\ ClientHeld(s)
    BY Zenon DEF Sound
  <2>1. s.conn[c].fd \in Fds
    BY ONLY <1>2, <2>0 DEF StateT, ConnT
  <2>2. /\ s.handlers[s.conn[c].fd] # NONE
        /\ s.handlers[s.conn[c].fd].fn = "client"
        /\ s.handlers[s.conn[c].fd].ctx = c
    BY ONLY <2>0, <2>1, SMTT(30) DEF ClientHeld
  <2>. DEFINE t == loop_ctl(s, s.conn[c].fd, "client", c, ev)
  <2>3. /\ Sound(t) /\ t.conn = s.conn
        /\ t.handlers[s.conn[c].fd] # NONE
        /\ t.handlers[s.conn[c].fd].fn = "client"
        /\ t.handlers[s.conn[c].fd].ctx = c
        /\ \A g \in Fds \ {s.conn[c].fd} : t.handlers[g] = s.handlers[g]
    <3>1. Sound(s) /\ c \in Conns /\ ev \in SUBSET RW
      BY SMTT(30)
    <3>. QED
      BY ONLY <2>1, <2>2, <3>1, LoopCtlSound, SMTT(30)
  <2>4. worker_client_event_mod(s, c, ev) = t
    BY Zenon DEF worker_client_event_mod
  <2>. HIDE DEF t
  <2>5. \A f \in Fds : s.handlers[f] # NONE =>
          /\ t.handlers[f] # NONE
          /\ t.handlers[f].fn = s.handlers[f].fn
          /\ t.handlers[f].ctx = s.handlers[f].ctx
    BY ONLY <2>2, <2>3, Zenon
  <2>. QED
    BY <2>3, <2>4, <2>5, Zenon
<1>. QED
  BY <1>1, <1>2

\* What event_loop_del changes: the block goes, pending events of it are marked.
LEMMA DelFields ==
  ASSUME NEW s \in StateT, NEW f \in Fds
  PROVE  LET t == event_loop_del(s, f)
         IN  /\ t \in StateT
             /\ t.handlers = [s.handlers EXCEPT ![f] = NONE]
             /\ DOMAIN t.batch = DOMAIN s.batch
             /\ \A i \in DOMAIN s.batch :
                  /\ t.batch[i].fd = s.batch[i].fd
                  /\ t.batch[i].fd = f => t.batch[i].freed
                  /\ t.batch[i].fd # f => t.batch[i].freed = s.batch[i].freed
             /\ t.fresh = s.fresh \ {f}
             /\ t.conn = s.conn /\ t.open = s.open
             /\ t.idle_fds = s.idle_fds /\ t.phase = s.phase
             /\ t.heap = s.heap
<1>. DEFINE q == [i \in DOMAIN s.batch |->
                   IF s.batch[i].fd = f THEN [s.batch[i] EXCEPT !.freed = TRUE]
                   ELSE s.batch[i]]
<1>1. s.batch \in Seq(EventT)
  BY DEF StateT
<1>2. \A i \in DOMAIN s.batch : s.batch[i] \in EventT
  BY <1>1
<1>3. \A i \in DOMAIN s.batch :
        /\ q[i] \in EventT /\ q[i].fd = s.batch[i].fd
        /\ q[i].fd = f => q[i].freed
        /\ q[i].fd # f => q[i].freed = s.batch[i].freed
  BY <1>2, Zenon DEF EventT
<1>4. DOMAIN q = DOMAIN s.batch /\ q \in Seq(EventT)
  <2>1. Len(s.batch) \in Nat /\ DOMAIN s.batch = 1..Len(s.batch)
    BY <1>1, LenProperties
  <2>2. q \in [1..Len(s.batch) -> EventT]
    BY <2>1, <1>3, Zenon
  <2>. QED
    BY <2>1, <2>2, SeqDef
<1>. HIDE DEF q
<1>5. event_loop_del(s, f) =
        [s EXCEPT !.handlers = [s.handlers EXCEPT ![f] = NONE],
                  !.batch = q, !.fresh = s.fresh \ {f}]
  BY DEF event_loop_del, q
<1>6. s.handlers \in [Fds -> HandlerT \cup {NONE}]
  BY Zenon DEF StateT
<1>. QED
  <2>. DEFINE u == event_loop_del(s, f)
  <2>0. [s.handlers EXCEPT ![f] = NONE] \in [Fds -> HandlerT \cup {NONE}]
    BY <1>6
  <2>. DEFINE h == [s.handlers EXCEPT ![f] = NONE]
              w == s.fresh \ {f}
  <2>3. w \in SUBSET Fds
    BY DEF StateT
  <2>. HIDE DEF h, w
  <2>4. [s EXCEPT !.handlers = h, !.batch = q, !.fresh = w] \in StateT
    BY <1>4, <2>0, <2>3, Zenon DEF StateT, h
  <2>1. /\ u \in StateT /\ u.batch = q
        /\ u.handlers = [s.handlers EXCEPT ![f] = NONE]
        /\ u.fresh = s.fresh \ {f}
        /\ u.conn = s.conn /\ u.open = s.open
        /\ u.idle_fds = s.idle_fds /\ u.phase = s.phase
        /\ u.heap = s.heap
    BY <1>5, <2>4 DEF StateT, h, w
  <2>. QED
    BY <1>3, <1>4, <2>1

\* The descriptor f leaves the hands of conn_t c: its handler is removed and
\* the field of c that held it is cleared.  Nothing holds it any more.
LEMMA ReleaseSound ==
  ASSUME NEW s, Sound(s), NEW c \in Conns, NEW f \in Fds, NEW r \in ConnT,
         s.handlers[f] # NONE, s.handlers[f].ctx = c,
         r.fd \in {s.conn[c].fd, NONE} \ {f},
         r.upstream_fd \in {s.conn[c].upstream_fd, NONE} \ {f},
         r.file_fd = s.conn[c].file_fd
  PROVE  LET t == SetConn(event_loop_del(s, f), c, r)
         IN  Sound(t) /\ InHand(t, f) /\ t.conn = [s.conn EXCEPT ![c] = r]
<1>. DEFINE u == event_loop_del(s, f)
            t == SetConn(u, c, r)
<1>1. /\ s \in StateT /\ s.handlers \in [Fds -> HandlerT \cup {NONE}]
      /\ s.conn \in [Conns -> ConnT] /\ s.batch \in Seq(EventT)
      /\ Registered(s) /\ ClientHeld(s) /\ UpstreamHeld(s)
      /\ FileHeld(s) /\ IdleHeld(s) /\ BatchLive(s)
  BY Zenon DEF Sound, StateT
<1>2. /\ u \in StateT /\ u.handlers = [s.handlers EXCEPT ![f] = NONE]
      /\ DOMAIN u.batch = DOMAIN s.batch
      /\ \A i \in DOMAIN s.batch :
           /\ u.batch[i].fd = s.batch[i].fd
           /\ u.batch[i].fd = f => u.batch[i].freed
           /\ u.batch[i].fd # f => u.batch[i].freed = s.batch[i].freed
      /\ u.fresh = s.fresh \ {f}
      /\ u.conn = s.conn /\ u.open = s.open /\ u.idle_fds = s.idle_fds
  BY ONLY <1>1, DelFields
<1>. HIDE DEF u
<1>3. /\ t \in StateT /\ t.conn = [s.conn EXCEPT ![c] = r]
      /\ t.handlers = u.handlers /\ t.open = s.open
      /\ t.batch = u.batch /\ t.fresh = u.fresh /\ t.idle_fds = s.idle_fds
  BY <1>2, SetConnFields, SMTT(60)
<1>. HIDE DEF t
<1>4. /\ t.handlers[f] = NONE
      /\ \A g \in Fds \ {f} : t.handlers[g] = s.handlers[g]
  BY <1>1, <1>2, <1>3, SMTT(60)
<1>5. /\ t.conn[c] = r
      /\ \A d \in Conns \ {c} : t.conn[d] = s.conn[d]
  BY <1>1, <1>3, SMTT(60)
<1>6. Registered(t)
  BY <1>1, <1>3, <1>4, Zenon DEF Registered
<1>7. \A d \in Conns : /\ t.conn[d].fd # f /\ t.conn[d].upstream_fd # f
                       /\ t.conn[d].fd \in {s.conn[d].fd, NONE}
                       /\ t.conn[d].upstream_fd \in {s.conn[d].upstream_fd, NONE}
                       /\ t.conn[d].file_fd = s.conn[d].file_fd
  BY <1>1, <1>5 DEF ClientHeld, UpstreamHeld
<1>8. NONE \notin Fds
  BY WorkerAssumption, Zenon
<1>9. ClientHeld(t)
  BY ONLY <1>1, <1>4, <1>7, <1>8 DEF ClientHeld
<1>c. UpstreamHeld(t)
  BY ONLY <1>1, <1>4, <1>7, <1>8, SMTT(30) DEF UpstreamHeld
<1>10. FileHeld(t)
  BY ONLY <1>1, <1>3, <1>4, <1>7 DEF FileHeld, Idle
<1>a. f \in Fds /\ s.handlers[f] # NONE
  BY Zenon
<1>b. s.idle_fds \in [Backends -> Seq(Fds)]
  BY ONLY <1>1, Zenon DEF StateT
<1>11. \A b \in Backends : \A i \in DOMAIN s.idle_fds[b] :
         s.idle_fds[b][i] \in Fds \ {f}
  BY ONLY <1>1, <1>a, <1>b DEF IdleHeld
<1>12. IdleHeld(t)
  BY ONLY <1>1, <1>3, <1>4, <1>11 DEF IdleHeld
<1>13. BatchLive(t)
  BY ONLY <1>1, <1>2, <1>3, <1>4, SMTT(30) DEF BatchLive
<1>14. InHand(t, f)
  <2>1. f \in t.open
    BY ONLY <1>1, <1>3, <1>a DEF Registered
  <2>3. \A d \in Conns : t.conn[d].file_fd # f
    BY ONLY <1>1, <1>7, <1>a DEF FileHeld
  <2>2. ~Idle(t, f)
    BY ONLY <1>3, <1>11, Zenon DEF Idle
  <2>. QED
    BY ONLY <1>4, <1>a, <2>1, <2>2, <2>3 DEF InHand
<1>. QED
  BY ONLY <1>3, <1>6, <1>9, <1>c, <1>10, <1>12, <1>13, <1>14 DEF Sound, t, u

-----------------------------------------------------------------------------
(* conn.c *)

\* close(fd) and an assignment to a field of a conn_t commute.
LEMMA CloseSetConn ==
  ASSUME NEW s \in StateT, NEW c \in Conns, NEW f \in Fds, NEW r \in ConnT,
         Sound(Close(SetConn(s, c, r), f))
  PROVE  Sound(SetConn(Close(s, f), c, r))
<1>. DEFINE a == SetConn(s, c, r)
            b == Close(a, f)
            u == Close(s, f)
            t == SetConn(u, c, r)
<1>1. /\ a \in StateT /\ a.conn = [s.conn EXCEPT ![c] = r]
      /\ a.handlers = s.handlers /\ a.open = s.open
      /\ a.batch = s.batch /\ a.fresh = s.fresh /\ a.idle_fds = s.idle_fds
  BY SetConnFields, SMTT(60)
<1>. HIDE DEF a
<1>2. /\ b \in StateT /\ b.conn = [s.conn EXCEPT ![c] = r]
      /\ b.handlers = s.handlers /\ b.open = s.open \ {f}
      /\ b.batch = s.batch /\ b.fresh = s.fresh /\ b.idle_fds = s.idle_fds
  BY <1>1, CloseFields, SMTT(60)
<1>3. /\ u \in StateT /\ u.conn = s.conn
      /\ u.handlers = s.handlers /\ u.open = s.open \ {f}
      /\ u.batch = s.batch /\ u.fresh = s.fresh /\ u.idle_fds = s.idle_fds
  BY CloseFields, SMTT(60)
<1>. HIDE DEF u
<1>4. /\ t \in StateT /\ t.conn = [s.conn EXCEPT ![c] = r]
      /\ t.handlers = s.handlers /\ t.open = s.open \ {f}
      /\ t.batch = s.batch /\ t.fresh = s.fresh /\ t.idle_fds = s.idle_fds
  BY <1>3, SetConnFields
<1>5. Sound(b)
  BY SMTT(60) DEF a
<1>. HIDE DEF b, t
<1>6. Sound(t)
  BY <1>2, <1>4, <1>5, SameSound, Zenon
<1>. QED
  BY <1>6, SMTT(60) DEF t, u

\* conn_close: the client descriptor is unregistered, closed and forgotten.
LEMMA DropClientSound ==
  ASSUME NEW s, Sound(s), NEW c \in Conns
  PROVE  Sound(DropClient(s, c))
<1>. DEFINE f == s.conn[c].fd
            r == [s.conn[c] EXCEPT !.fd = NONE]
<1>1. s \in StateT /\ s.conn[c] \in ConnT
  BY DEF Sound, StateT
<1>2. CASE f = NONE
  BY <1>2 DEF DropClient
<1>3. CASE f # NONE
  <2>1. /\ f \in Fds /\ NONE \notin Fds /\ r \in ConnT
        /\ r.fd = NONE /\ r.upstream_fd = s.conn[c].upstream_fd
        /\ r.file_fd = s.conn[c].file_fd
    BY <1>1, <1>3, WorkerAssumption DEF ConnT
  <2>. HIDE DEF r
  <2>2. s.handlers[f] # NONE /\ s.handlers[f].ctx = c /\ r.upstream_fd # f
    BY <2>1 DEF Sound, ClientHeld, UpstreamHeld
  <2>3. DropClient(s, c) = SetConn(Close(event_loop_del(s, f), f), c, r)
    BY <1>3, SMTT(60) DEF DropClient, r
  <2>. HIDE DEF f
  <2>4. /\ Sound(SetConn(event_loop_del(s, f), c, r))
        /\ InHand(SetConn(event_loop_del(s, f), c, r), f)
    BY <2>1, <2>2, ReleaseSound, Zenon DEF f
  <2>5. Sound(Close(SetConn(event_loop_del(s, f), c, r), f))
    BY <2>4, CloseSound
  <2>6. event_loop_del(s, f) \in StateT
    BY <1>1, <2>1, DelFields, Zenon
  <2>. QED
    BY <2>1, <2>3, <2>5, <2>6, CloseSetConn
<1>. QED
  BY <1>2, <1>3

\* The same for the upstream descriptor.
LEMMA DropUpstreamSound ==
  ASSUME NEW s, Sound(s), NEW c \in Conns
  PROVE  Sound(DropUpstream(s, c))
<1>. DEFINE f == s.conn[c].upstream_fd
            r == [s.conn[c] EXCEPT !.upstream_fd = NONE]
<1>1. s \in StateT /\ s.conn[c] \in ConnT
  BY DEF Sound, StateT
<1>2. CASE f = NONE
  BY <1>2 DEF DropUpstream
<1>3. CASE f # NONE
  <2>1. /\ f \in Fds /\ NONE \notin Fds /\ r \in ConnT
        /\ r.upstream_fd = NONE /\ r.fd = s.conn[c].fd
        /\ r.file_fd = s.conn[c].file_fd
    BY <1>1, <1>3, WorkerAssumption, SMTT(60) DEF ConnT
  <2>. HIDE DEF r
  <2>2. s.handlers[f] # NONE /\ s.handlers[f].ctx = c /\ r.fd # f
    BY <2>1 DEF Sound, ClientHeld, UpstreamHeld
  <2>3. DropUpstream(s, c) = SetConn(Close(event_loop_del(s, f), f), c, r)
    BY <1>3, SMTT(60) DEF DropUpstream, r
  <2>. HIDE DEF f
  <2>4. /\ Sound(SetConn(event_loop_del(s, f), c, r))
        /\ InHand(SetConn(event_loop_del(s, f), c, r), f)
    BY <2>1, <2>2, ReleaseSound, Zenon DEF f
  <2>5. Sound(Close(SetConn(event_loop_del(s, f), c, r), f))
    BY <2>4, CloseSound
  <2>6. event_loop_del(s, f) \in StateT
    BY <1>1, <2>1, DelFields, Zenon
  <2>. QED
    BY <2>1, <2>3, <2>5, <2>6, CloseSetConn
<1>. QED
  BY <1>2, <1>3

\* A file has no handler, so its descriptor is only closed.
LEMMA DropFileSound ==
  ASSUME NEW s, Sound(s), NEW c \in Conns
  PROVE  Sound(DropFile(s, c))
<1>. DEFINE f == s.conn[c].file_fd
            r == [s.conn[c] EXCEPT !.file_fd = NONE]
            a == SetConn(s, c, r)
<1>1. /\ s \in StateT /\ s.conn[c] \in ConnT /\ s.conn \in [Conns -> ConnT]
      /\ Registered(s) /\ ClientHeld(s) /\ UpstreamHeld(s)
      /\ FileHeld(s) /\ IdleHeld(s) /\ BatchLive(s)
  BY DEF Sound, StateT
<1>2. CASE f = NONE
  BY <1>2, SMTT(60) DEF DropFile
<1>3. CASE f # NONE
  <2>1. /\ f \in Fds /\ NONE \notin Fds /\ r \in ConnT
        /\ r.file_fd = NONE /\ r.fd = s.conn[c].fd
        /\ r.upstream_fd = s.conn[c].upstream_fd
    BY <1>1, <1>3, WorkerAssumption DEF ConnT
  <2>2. /\ f \in s.open /\ s.handlers[f] = NONE /\ ~Idle(s, f)
        /\ \A d \in Conns \ {c} : s.conn[d].file_fd # f
    BY <1>1, <2>1 DEF FileHeld
  <2>3. DropFile(s, c) = SetConn(Close(s, f), c, r)
    BY ONLY <1>3 DEF DropFile
  <2>. HIDE DEF f, r
  <2>4. /\ a \in StateT /\ a.conn = [s.conn EXCEPT ![c] = r]
        /\ a.handlers = s.handlers /\ a.open = s.open
        /\ a.batch = s.batch /\ a.fresh = s.fresh /\ a.idle_fds = s.idle_fds
    BY <1>1, <2>1, SetConnFields, SMTT(60)
  <2>. HIDE DEF a
  <2>5. \A d \in Conns : /\ a.conn[d].fd = s.conn[d].fd
                         /\ a.conn[d].upstream_fd = s.conn[d].upstream_fd
                         /\ a.conn[d].file_fd \in {s.conn[d].file_fd, NONE} \ {f}
    BY <1>1, <2>1, <2>2, <2>4, Zenon
  <2>6. Registered(a) /\ IdleHeld(a) /\ BatchLive(a)
    BY <1>1, <2>4, SMTT(30) DEF Registered, IdleHeld, BatchLive
  <2>7. ClientHeld(a) /\ UpstreamHeld(a)
    BY <1>1, <2>4, <2>5, SMTT(30) DEF ClientHeld, UpstreamHeld
  <2>8. FileHeld(a)
    BY ONLY <1>1, <2>1, <2>4, <2>5, SMTT(30) DEF FileHeld, Idle
  <2>9. Sound(a) /\ InHand(a, f)
    BY <2>1, <2>2, <2>4, <2>5, <2>6, <2>7, <2>8, SMTT(60) DEF Sound, InHand, Idle
  <2>10. Sound(Close(SetConn(s, c, r), f))
    BY <2>9, CloseSound DEF a
  <2>. QED
    BY <1>1, <2>1, <2>3, <2>10, CloseSetConn
<1>. QED
  BY <1>2, <1>3

\* conn_close: the three descriptors in turn.
LEMMA ConnCloseSound ==
  ASSUME NEW s, Sound(s), NEW c \in Conns
  PROVE  Sound(conn_close(s, c))
<1>. DEFINE t == DropFile(DropUpstream(DropClient(s, c), c), c)
            r == [t.conn[c] EXCEPT !.state = "CLOSING"]
<1>1. Sound(t)
  BY DropClientSound, DropUpstreamSound, DropFileSound
<1>2. conn_close(s, c) = SetConn(t, c, r)
  BY Zenon DEF conn_close
<1>. HIDE DEF t
<1>3. t.conn[c] \in ConnT
  BY <1>1 DEF Sound, StateT
<1>4. /\ r \in ConnT /\ r.fd = t.conn[c].fd
      /\ r.upstream_fd = t.conn[c].upstream_fd
      /\ r.file_fd = t.conn[c].file_fd
  BY <1>3 DEF ConnT, ConnState
<1>. HIDE DEF r
<1>. QED
  BY <1>1, <1>2, <1>4, SetConnSound

\* conn_pool_put, which pushes the conn_t or frees it.
LEMMA PoolPutSound ==
  ASSUME NEW s, Sound(s), NEW c \in Conns
  PROVE  Sound(conn_pool_put(s, c))
<1>. DEFINE t == conn_close(s, c)
            r == [t.conn[c] EXCEPT !.wbuf = FALSE, !.upstream_rbuf = FALSE,
                            !.upstream_wbuf = FALSE, !.next = t.free_head]
            u == SetConn(t, c, r)
            n == t.free_count + 1
            freed == [t EXCEPT !.heap = t.heap \ {c}]
            pushed == [u EXCEPT !.free_head = c, !.free_count = n]
<1>1. Sound(t)
  BY ConnCloseSound
<1>2. conn_pool_put(s, c) = IF t.free_count >= MaxFree THEN freed ELSE pushed
  BY Zenon DEF conn_pool_put
<1>. HIDE DEF t
<1>3. t \in StateT /\ t.conn[c] \in ConnT /\ t.free_head \in Conns \cup {NONE}
      /\ t.free_count \in Int
  BY <1>1 DEF Sound, StateT
<1>4. Sound(freed)
  <2>1. /\ freed \in StateT
        /\ freed.conn = t.conn /\ freed.handlers = t.handlers
        /\ freed.open = t.open /\ freed.batch = t.batch
        /\ freed.fresh = t.fresh /\ freed.idle_fds = t.idle_fds
    BY <1>3, Zenon DEF StateT
  <2>. HIDE DEF freed
  <2>. QED
    BY <1>1, <2>1, SameSound
<1>5. /\ r \in ConnT /\ r.fd = t.conn[c].fd
      /\ r.upstream_fd = t.conn[c].upstream_fd
      /\ r.file_fd = t.conn[c].file_fd
  BY ONLY <1>3, Zenon DEF ConnT
<1>. HIDE DEF r
<1>6. Sound(u)
  BY <1>1, <1>5, SetConnSound
<1>. HIDE DEF u
<1>7. Sound(pushed)
  <2>0. n \in Int
    BY <1>3
  <2>. HIDE DEF n
  <2>1. /\ pushed \in StateT
        /\ pushed.conn = u.conn /\ pushed.handlers = u.handlers
        /\ pushed.open = u.open /\ pushed.batch = u.batch
        /\ pushed.fresh = u.fresh /\ pushed.idle_fds = u.idle_fds
    BY <2>0, <1>6, Zenon DEF StateT, Sound
  <2>. HIDE DEF pushed
  <2>. QED
    BY <1>6, <2>1, SameSound
<1>. QED
  BY <1>2, <1>4, <1>7

\* worker_conn_close also counts; counters are free.
LEMMA WorkerConnCloseSound ==
  ASSUME NEW s, Sound(s), NEW c \in Conns
  PROVE  Sound(worker_conn_close(s, c))
<1>. DEFINE n == s.active_conns - 1
            t == [s EXCEPT !.active_conns = n]
<1>2. worker_conn_close(s, c) = conn_pool_put(t, c)
  BY DEF worker_conn_close
<1>4. n \in Int
  BY DEF Sound, StateT
<1>. HIDE DEF n
<1>1. /\ t \in StateT
      /\ t.conn = s.conn /\ t.handlers = s.handlers /\ t.open = s.open
      /\ t.batch = s.batch /\ t.fresh = s.fresh /\ t.idle_fds = s.idle_fds
  <2>1. s \in StateT
    BY Zenon DEF Sound
  <2>. QED
    BY ONLY <1>4, <2>1 DEF StateT
<1>. HIDE DEF t
<1>3. Sound(t)
  BY <1>1, SameSound, Zenon
<1>. QED
  BY <1>2, <1>3, PoolPutSound

-----------------------------------------------------------------------------
(* Descriptors change hands *)

\* The kernel hands out a number that is not in use.
LEMMA OpenSound ==
  ASSUME NEW s, Sound(s), NEW f \in Fds \ s.open, NEW x \in StateT,
         x.open = s.open \cup {f}, x.conn = s.conn, x.handlers = s.handlers,
         x.batch = s.batch, x.fresh = s.fresh, x.idle_fds = s.idle_fds
  PROVE  Sound(x) /\ InHand(x, f)
<1>1. /\ s \in StateT
      /\ Registered(s) /\ ClientHeld(s) /\ UpstreamHeld(s)
      /\ FileHeld(s) /\ IdleHeld(s) /\ BatchLive(s)
  BY Zenon DEF Sound
<1>0. /\ f \in Fds /\ f \notin s.open
      /\ x.open = s.open \cup {f} /\ x.conn = s.conn /\ x.handlers = s.handlers
      /\ x.batch = s.batch /\ x.fresh = s.fresh /\ x.idle_fds = s.idle_fds
  BY Zenon
<1>2. Registered(x) /\ IdleHeld(x) /\ BatchLive(x)
  BY ONLY <1>0, <1>1, SMTT(30) DEF Registered, IdleHeld, BatchLive
<1>3. ClientHeld(x) /\ UpstreamHeld(x)
  BY ONLY <1>0, <1>1, SMTT(30) DEF ClientHeld, UpstreamHeld
<1>4. FileHeld(x)
  BY ONLY <1>0, <1>1 DEF FileHeld, Idle
<1>5. InHand(x, f)
  <2>1. x.handlers[f] = NONE
    BY ONLY <1>0, <1>1 DEF Registered
  <2>2. \A c \in Conns : x.conn[c].file_fd # f
    BY ONLY <1>0, <1>1 DEF FileHeld
  <2>3. ~Idle(x, f)
    BY ONLY <1>0, <1>1 DEF IdleHeld, Idle
  <2>. QED
    BY ONLY <1>0, <2>1, <2>2, <2>3 DEF InHand
<1>. QED
  BY ONLY <1>2, <1>3, <1>4, <1>5 DEF Sound

\* A descriptor in hand becomes the client or the upstream descriptor of c.
LEMMA RegisterSound ==
  ASSUME NEW s, Sound(s), NEW f, InHand(s, f), NEW c \in Conns,
         NEW fn \in {"client", "upstream"}, NEW ev \in SUBSET RW,
         NEW r \in ConnT,
         r.fd \in {s.conn[c].fd, NONE} \/ (fn = "client" /\ r.fd = f),
         r.upstream_fd \in {s.conn[c].upstream_fd, NONE}
           \/ (fn = "upstream" /\ r.upstream_fd = f),
         r.file_fd \in {s.conn[c].file_fd, NONE},
         NEW x \in StateT, x.conn = [s.conn EXCEPT ![c] = r],
         x.handlers = s.handlers, x.open = s.open, x.batch = s.batch,
         x.fresh = s.fresh, x.idle_fds = s.idle_fds
  PROVE  Sound(loop_ctl(x, f, fn, c, ev))
<1>. DEFINE t == loop_ctl(x, f, fn, c, ev)
            h == [fn |-> fn, ctx |-> c, ev |-> ev]
<1>1. /\ s \in StateT /\ s.handlers \in [Fds -> HandlerT \cup {NONE}]
      /\ s.conn \in [Conns -> ConnT] /\ f \in Fds /\ NONE \notin Fds
      /\ Registered(s) /\ ClientHeld(s) /\ UpstreamHeld(s)
      /\ FileHeld(s) /\ IdleHeld(s) /\ BatchLive(s)
  <2>1. s \in StateT /\ Registered(s) /\ ClientHeld(s) /\ UpstreamHeld(s)
        /\ FileHeld(s) /\ IdleHeld(s) /\ BatchLive(s)
    BY Zenon DEF Sound
  <2>2. s.handlers \in [Fds -> HandlerT \cup {NONE}] /\ s.conn \in [Conns -> ConnT]
    BY ONLY <2>1, Zenon DEF StateT
  <2>3. f \in Fds
    BY Zenon DEF InHand
  <2>. QED
    BY ONLY <2>1, <2>2, <2>3, WorkerAssumption
<1>0. /\ x.conn = [s.conn EXCEPT ![c] = r] /\ x.handlers = s.handlers
      /\ x.open = s.open /\ x.batch = s.batch /\ x.fresh = s.fresh
      /\ x.idle_fds = s.idle_fds
  BY Zenon
<1>2. /\ t \in StateT /\ t.handlers = [s.handlers EXCEPT ![f] = h]
      /\ t.fresh \subseteq s.fresh \cup {f}
      /\ t.conn = [s.conn EXCEPT ![c] = r] /\ t.open = s.open
      /\ t.batch = s.batch /\ t.idle_fds = s.idle_fds
  <2>1. /\ t \in StateT /\ t.handlers = [x.handlers EXCEPT ![f] = h]
        /\ t.fresh \subseteq x.fresh \cup {f}
        /\ t.conn = x.conn /\ t.open = x.open /\ t.batch = x.batch
        /\ t.idle_fds = x.idle_fds
    <3>1. /\ x \in StateT /\ f \in Fds /\ fn \in {"client", "upstream"}
          /\ c \in Conns /\ ev \in SUBSET RW
      BY <1>1, Zenon
    <3>2. Controlled(x, t, f, h)
      BY ONLY <3>1, LoopCtlFields, SMTT(30)
    <3>. HIDE DEF t, h
    <3>. QED
      BY ONLY <3>2 DEF Controlled
  <2>. HIDE DEF t, h
  <2>. QED
    BY ONLY <1>0, <2>1, Zenon
<1>3. h # NONE /\ h.fn = fn /\ h.ctx = c
  BY ONLY NoneIsNoHandler DEF HandlerT
<1>. HIDE DEF t, h
<1>4. /\ t.handlers[f] = h
      /\ \A g \in Fds \ {f} : t.handlers[g] = s.handlers[g]
  BY ONLY <1>1, <1>2
<1>5. t.conn[c] = r /\ \A d \in Conns \ {c} : t.conn[d] = s.conn[d]
  BY <1>1, <1>2, Zenon
<1>6. \A d \in Conns : s.conn[d].fd # f /\ s.conn[d].upstream_fd # f
                      /\ s.conn[d].file_fd # f
  BY <1>1, Zenon DEF InHand, ClientHeld, UpstreamHeld
<1>a. f \in s.open
  BY Zenon DEF InHand
<1>7. Registered(t)
  BY ONLY <1>1, <1>2, <1>4, <1>a DEF Registered
<1>b. /\ r.fd \in {s.conn[c].fd, NONE} \/ (fn = "client" /\ r.fd = f)
      /\ r.upstream_fd \in {s.conn[c].upstream_fd, NONE}
           \/ (fn = "upstream" /\ r.upstream_fd = f)
      /\ r.file_fd \in {s.conn[c].file_fd, NONE}
  BY SMTT(30)
<1>8. ClientHeld(t)
  BY ONLY <1>1, <1>3, <1>4, <1>5, <1>6, <1>b, SMTT(30) DEF ClientHeld
<1>9. UpstreamHeld(t)
  BY ONLY <1>1, <1>3, <1>4, <1>5, <1>6, <1>b, SMTT(30) DEF UpstreamHeld
<1>10. FileHeld(t)
  <2>1. \A d \in Conns : t.conn[d].file_fd \in {s.conn[d].file_fd, NONE} \ {f}
    BY ONLY <1>1, <1>5, <1>6, <1>b, SMTT(30)
  <2>. QED
    BY ONLY <1>1, <1>2, <1>4, <2>1, SMTT(30) DEF FileHeld, Idle
<1>11. IdleHeld(t)
  <2>a. ~Idle(s, f) /\ s.idle_fds \in [Backends -> Seq(Fds)]
    BY <1>1, Zenon DEF StateT, InHand
  <2>1. \A b \in Backends : \A i \in DOMAIN s.idle_fds[b] :
          s.idle_fds[b][i] \in Fds \ {f}
    BY ONLY <2>a DEF Idle
  <2>. QED
    BY ONLY <1>1, <1>2, <1>4, <2>1 DEF IdleHeld
<1>c. s.batch \in Seq(EventT)
  BY ONLY <1>1, Zenon DEF StateT
<1>12. BatchLive(t)
  BY ONLY <1>1, <1>2, <1>3, <1>4, <1>c DEF BatchLive
<1>. QED
  BY ONLY <1>2, <1>7, <1>8, <1>9, <1>10, <1>11, <1>12, Zenon DEF Sound, t

\* A descriptor in hand goes to the end of a backend's idle array.
LEMMA IdlePushSound ==
  ASSUME NEW s, Sound(s), NEW f, InHand(s, f), NEW b \in Backends
  PROVE  Sound(upstream_put_connection(s, b, f))
<1>. DEFINE q == s.idle_fds[b]
            idle == [s.idle_fds EXCEPT ![b] = Append(q, f)]
            x == [s EXCEPT !.idle_fds = idle]
<1>1. CASE ~(Len(q) < Keepalive)
  BY <1>1, CloseSound DEF upstream_put_connection
<1>2. CASE Len(q) < Keepalive
  <2>1. /\ s \in StateT /\ s.idle_fds \in [Backends -> Seq(Fds)]
        /\ q \in Seq(Fds) /\ f \in Fds
        /\ Registered(s) /\ ClientHeld(s) /\ UpstreamHeld(s)
        /\ FileHeld(s) /\ IdleHeld(s) /\ BatchLive(s)
    BY Zenon DEF Sound, StateT, InHand
  <2>2. /\ Append(q, f) \in Seq(Fds) /\ Len(Append(q, f)) = Len(q) + 1
        /\ \A i \in 1..Len(q) : Append(q, f)[i] = q[i]
        /\ Append(q, f)[Len(q) + 1] = f
        /\ DOMAIN Append(q, f) = 1..(Len(q) + 1) /\ DOMAIN q = 1..Len(q)
        /\ Len(q) \in Nat
    BY <2>1
  <2>3. /\ idle \in [Backends -> Seq(Fds)] /\ idle[b] = Append(q, f)
        /\ \A a \in Backends \ {b} : idle[a] = s.idle_fds[a]
    BY <2>1, <2>2
  <2>4. upstream_put_connection(s, b, f) = x
    BY <1>2 DEF upstream_put_connection
  <2>. HIDE DEF idle
  <2>5. /\ x \in StateT /\ x.idle_fds = idle /\ x.open = s.open
        /\ x.conn = s.conn /\ x.handlers = s.handlers
        /\ x.batch = s.batch /\ x.fresh = s.fresh
    BY <2>1, <2>3, Zenon DEF StateT
  <2>. HIDE DEF x
  <2>6. \A a \in Backends : \A i \in DOMAIN idle[a] :
          \/ i \in DOMAIN s.idle_fds[a] /\ idle[a][i] = s.idle_fds[a][i]
          \/ a = b /\ i = Len(q) + 1 /\ idle[a][i] = f
    <3>1. \A i \in 1..(Len(q) + 1) : i \in 1..Len(q) \/ i = Len(q) + 1
      BY ONLY <2>2
    <3>2. \A i \in DOMAIN idle[b] :
            \/ i \in DOMAIN s.idle_fds[b] /\ idle[b][i] = s.idle_fds[b][i]
            \/ i = Len(q) + 1 /\ idle[b][i] = f
      BY ONLY <2>2, <2>3, <3>1, Zenon
    <3>. QED
      BY ONLY <2>3, <3>2, Zenon
  <2>7. ~Idle(s, f) /\ f \in s.open /\ s.handlers[f] = NONE
        /\ \A d \in Conns : s.conn[d].file_fd # f
    BY DEF InHand
  <2>8. IdleHeld(x)
    <3>1. \A a \in Backends : \A i \in DOMAIN idle[a] :
            idle[a][i] \in s.open /\ s.handlers[idle[a][i]] = NONE
      BY ONLY <2>1, <2>6, <2>7, SMTT(30) DEF IdleHeld
    <3>2. \A a, d \in Backends : \A i \in DOMAIN idle[a], j \in DOMAIN idle[d] :
            idle[a][i] = idle[d][j] => a = d /\ i = j
      BY ONLY <2>1, <2>6, <2>7, SMTT(30) DEF IdleHeld, Idle
    <3>. QED
      BY ONLY <2>5, <3>1, <3>2, SMTT(30) DEF IdleHeld
  <2>9. FileHeld(x)
    BY ONLY <2>1, <2>5, <2>6, <2>7, SMTT(30) DEF FileHeld, Idle
  <2>10. Registered(x) /\ ClientHeld(x) /\ UpstreamHeld(x) /\ BatchLive(x)
    BY ONLY <2>1, <2>5 DEF Registered, ClientHeld, UpstreamHeld, BatchLive
  <2>. QED
    BY <2>4, <2>5, <2>8, <2>9, <2>10, Zenon DEF Sound
<1>. QED
  BY <1>1, <1>2

\* The last descriptor of a backend's idle array is taken.
LEMMA IdlePopSound ==
  ASSUME NEW s, Sound(s), NEW b \in Backends, s.idle_fds[b] # <<>>
  PROVE  LET q == s.idle_fds[b]
             x == [s EXCEPT !.idle_fds =
                     [s.idle_fds EXCEPT ![b] = SubSeq(@, 1, Len(@) - 1)]]
         IN  Sound(x) /\ InHand(x, IdleTop(s, b)) /\ x.conn = s.conn
<1>. DEFINE q == s.idle_fds[b]
            p == SubSeq(q, 1, Len(q) - 1)
            f == IdleTop(s, b)
            idle == [s.idle_fds EXCEPT ![b] = p]
            x == [s EXCEPT !.idle_fds = idle]
<1>1. /\ s \in StateT /\ s.idle_fds \in [Backends -> Seq(Fds)]
      /\ q \in Seq(Fds)
      /\ Registered(s) /\ ClientHeld(s) /\ UpstreamHeld(s)
      /\ FileHeld(s) /\ IdleHeld(s) /\ BatchLive(s)
  BY Zenon DEF Sound, StateT
<1>2. /\ Len(q) \in Nat \ {0} /\ DOMAIN q = 1..Len(q)
      /\ \A i \in 1..Len(q) : q[i] \in Fds
  BY <1>1
<1>3. /\ p \in Seq(Fds) /\ DOMAIN p = 1..(Len(q) - 1)
      /\ \A i \in 1..(Len(q) - 1) : p[i] = q[i]
  <2>1. \A i \in 1..(Len(q) - 1) : q[i] \in Fds
    BY ONLY <1>2
  <2>2. /\ p \in Seq(Fds)
        /\ Len(p) = IF 1 <= Len(q) - 1 THEN Len(q) - 1 - 1 + 1 ELSE 0
        /\ \A i \in 1..(Len(q) - 1 - 1 + 1) : p[i] = q[1 + i - 1]
    BY <1>2, <2>1, SubSeqProperties
  <2>3. Len(p) = Len(q) - 1 /\ DOMAIN p = 1..Len(p)
    BY <1>2, <2>2
  <2>. QED
    BY <1>2, <2>2, <2>3
<1>4. f \in Fds /\ f = q[Len(q)] /\ Len(q) \in DOMAIN q
  BY ONLY <1>2 DEF IdleTop
<1>5. /\ idle \in [Backends -> Seq(Fds)] /\ idle[b] = p
      /\ \A a \in Backends \ {b} : idle[a] = s.idle_fds[a]
  BY <1>1, <1>3
<1>. HIDE DEF p, f, idle
<1>6. /\ x \in StateT /\ x.idle_fds = idle /\ x.open = s.open
      /\ x.conn = s.conn /\ x.handlers = s.handlers
      /\ x.batch = s.batch /\ x.fresh = s.fresh
  BY <1>1, <1>5, Zenon DEF StateT
<1>. HIDE DEF x
<1>7. \A a \in Backends : \A i \in DOMAIN idle[a] :
        /\ i \in DOMAIN s.idle_fds[a] /\ idle[a][i] = s.idle_fds[a][i]
        /\ a = b => i # Len(q)
  BY ONLY <1>1, <1>2, <1>3, <1>5, SMTT(30)
<1>8. IdleHeld(x)
  BY ONLY <1>1, <1>6, <1>7, SMTT(30) DEF IdleHeld
<1>9. FileHeld(x)
  BY ONLY <1>1, <1>6, <1>7, SMTT(30) DEF FileHeld, Idle
<1>10. Registered(x) /\ ClientHeld(x) /\ UpstreamHeld(x) /\ BatchLive(x)
  BY ONLY <1>1, <1>6 DEF Registered, ClientHeld, UpstreamHeld, BatchLive
<1>11. f \in s.open /\ s.handlers[f] = NONE /\ Idle(s, f)
  BY ONLY <1>1, <1>4, Zenon DEF IdleHeld, Idle
<1>12. ~Idle(x, f)
  BY ONLY <1>1, <1>4, <1>6, <1>7 DEF IdleHeld, Idle
<1>13. InHand(x, f)
  BY ONLY <1>1, <1>4, <1>6, <1>11, <1>12, Zenon DEF InHand, FileHeld
<1>. QED
  BY <1>6, <1>8, <1>9, <1>10, <1>13, Zenon DEF Sound, x, idle, p, f
=============================================================================
