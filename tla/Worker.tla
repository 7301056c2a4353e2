------------------------------- MODULE Worker -------------------------------
(***************************************************************************)
(* One worker process: the event loop, the pool of conn_t objects, the     *)
(* client and upstream event handlers and the descriptors they share.      *)
(*                                                                         *)
(* The worker is one thread, so a C function is an operator from a state   *)
(* to a state, or to the SET of states it may return in when its outcome   *)
(* depends on the network, on the request or on the configuration.  The    *)
(* handlers compose these operators in the order of the C statements.      *)
(* Bytes are left out: a buffer is TRUE when it holds unsent data.         *)
(***************************************************************************)
EXTENDS Integers, Sequences, FiniteSets

CONSTANTS
  Conns,         \* the conn_t objects malloc can hand out
  Fds,           \* the descriptor numbers left for sockets and files
  Backends,      \* upstream_backend_t
  LISTENER,      \* the listening socket
  NONE,          \* -1 for a descriptor, NULL for a pointer
  MaxFree,       \* conn_pool_t.max_free
  MaxEvents,     \* event_loop_t.max_events
  Keepalive,     \* upstream_pool_t.keepalive_conns
  MaxAccepts,    \* bound: connections accepted in a behaviour
  Routes,        \* what the configuration lets handler_dispatch choose
  Overlap,       \* may a client send a request before the previous proxied
                 \* response's upstream socket has closed?
  LateFin        \* may handle_read meet an end of the connection (or of memory)
                 \* that the reported events did not show?

ASSUME WorkerAssumption ==
  /\ MaxFree \in Nat /\ MaxEvents \in Nat \ {0}
  /\ Keepalive \in Nat /\ MaxAccepts \in Nat
  /\ Routes \subseteq {"local", "static", "proxy", "tunnel"}
  /\ Overlap \in BOOLEAN /\ LateFin \in BOOLEAN
  /\ NONE \notin Conns \cup Fds \cup Backends
  /\ LISTENER \notin Fds

VARIABLES
  conn,          \* the fields of every conn_t
  heap,          \* the conn_t objects that are allocated
  free_head, free_count,                 \* conn_pool_t
  handlers,      \* event_loop_t.handlers: the callback of a descriptor
  batch,         \* the events of the last epoll_wait not dispatched yet
  fresh,         \* descriptors whose handler block was allocated after a
                 \* block that a pending event still points to was freed
  open, peer, eof,                       \* kernel: descriptors, their peers
  idle_fds,      \* upstream_backend_t.idle_fds
  active_conns,  \* worker_state_t.active_conns
  accepted,      \* connections accepted so far
  phase          \* where worker_run is

vars == <<conn, heap, free_head, free_count, handlers, batch, fresh, open,
          peer, eof, idle_fds, active_conns, accepted, phase>>

\* The whole state as one value, and the step that installs a new one.
S == [conn |-> conn, heap |-> heap, free_head |-> free_head,
      free_count |-> free_count, handlers |-> handlers, batch |-> batch,
      fresh |-> fresh, open |-> open, peer |-> peer, eof |-> eof,
      idle_fds |-> idle_fds, active_conns |-> active_conns,
      accepted |-> accepted, phase |-> phase]

Becomes(s) ==
  /\ conn' = s.conn /\ heap' = s.heap
  /\ free_head' = s.free_head /\ free_count' = s.free_count
  /\ handlers' = s.handlers /\ batch' = s.batch /\ fresh' = s.fresh
  /\ open' = s.open /\ peer' = s.peer /\ eof' = s.eof
  /\ idle_fds' = s.idle_fds /\ active_conns' = s.active_conns
  /\ accepted' = s.accepted /\ phase' = s.phase

R  == {"READ"}
W  == {"WRITE"}
RW == {"READ", "WRITE"}

ConnState == {"READING_REQUEST", "WRITING_RESPONSE", "PROXYING", "TUNNEL",
              "CLOSING", "SENDFILE"}

ConnT == [fd : Fds \cup {NONE}, upstream_fd : Fds \cup {NONE},
          file_fd : Fds \cup {NONE}, state : ConnState,
          keep_alive : BOOLEAN, wbuf : BOOLEAN, upstream_rbuf : BOOLEAN,
          upstream_wbuf : BOOLEAN, be : Backends \cup {NONE},
          next : Conns \cup {NONE}]

HandlerT == [fn : {"client", "upstream"}, ctx : Conns, ev : SUBSET RW]

ASSUME NoneIsNoHandler == NONE \notin HandlerT

EventT == [fd : Fds \cup {LISTENER}, ev : SUBSET (RW \cup {"HUP"}),
           freed : BOOLEAN]

\* The process is killed: a call through a freed handler block, a touch of
\* a freed conn_t, or an access to handlers[-1].
Crash(s) == [s EXCEPT !.phase = "crashed"]

SetConn(s, c, r) == [s EXCEPT !.conn = [s.conn EXCEPT ![c] = r]]

-----------------------------------------------------------------------------
(* event_loop.c and the kernel's descriptor table *)

\* close(2)
Close(s, f) ==
  [s EXCEPT !.open = s.open \ {f}, !.eof = s.eof \ {f},
            !.peer = [s.peer EXCEPT ![f] = NONE]]

\* loop_ctl with EPOLL_CTL_ADD or EPOLL_CTL_MOD: the block of the descriptor
\* is reused or allocated.  handlers[-1] is the header of a mapped chunk: not
\* NULL, and not a pointer that can be written through.
loop_ctl(s, f, fn, c, ev) ==
  IF f = NONE THEN Crash(s)
  ELSE [s EXCEPT
    !.handlers = [s.handlers EXCEPT ![f] = [fn |-> fn, ctx |-> c, ev |-> ev]],
    !.fresh = IF /\ s.handlers[f] = NONE
                 /\ \E i \in DOMAIN s.batch : s.batch[i].freed
              THEN s.fresh \cup {f} ELSE s.fresh]

\* event_loop_del: events of this batch that wait for the descriptor now
\* point to a freed block.
event_loop_del(s, f) ==
  [s EXCEPT
    !.handlers = [s.handlers EXCEPT ![f] = NONE],
    !.batch = [i \in DOMAIN s.batch |->
                 IF s.batch[i].fd = f THEN [s.batch[i] EXCEPT !.freed = TRUE]
                 ELSE s.batch[i]],
    !.fresh = s.fresh \ {f}]

worker_client_event_mod(s, c, ev) == loop_ctl(s, s.conn[c].fd, "client", c, ev)

-----------------------------------------------------------------------------
(* conn.c *)

DropClient(s, c) ==
  LET f == s.conn[c].fd
  IN  IF f = NONE THEN s
      ELSE SetConn(Close(event_loop_del(s, f), f), c,
                   [s.conn[c] EXCEPT !.fd = NONE])

\* Mutants: conn_close without the event_loop_del, or without the close, of
\* the upstream socket.
DropUpstreamNoDel(s, c) ==
  LET f == s.conn[c].upstream_fd
  IN  IF f = NONE THEN s
      ELSE SetConn(Close(s, f), c, [s.conn[c] EXCEPT !.upstream_fd = NONE])

DropUpstreamNoClose(s, c) ==
  LET f == s.conn[c].upstream_fd
  IN  IF f = NONE THEN s
      ELSE SetConn(event_loop_del(s, f), c, [s.conn[c] EXCEPT !.upstream_fd = NONE])

DropUpstream(s, c) ==
  LET f == s.conn[c].upstream_fd
  IN  IF f = NONE THEN s
      ELSE SetConn(Close(event_loop_del(s, f), f), c,
                   [s.conn[c] EXCEPT !.upstream_fd = NONE])

DropFile(s, c) ==
  LET f == s.conn[c].file_fd
  IN  IF f = NONE THEN s
      ELSE SetConn(Close(s, f), c, [s.conn[c] EXCEPT !.file_fd = NONE])

conn_close(s, c) ==
  LET t == DropFile(DropUpstream(DropClient(s, c), c), c)
  IN  SetConn(t, c, [t.conn[c] EXCEPT !.state = "CLOSING"])

\* Mutant: the counter that worker_conn_close decrements is decremented here
\* as well.
PutAndCount(s, c) ==
  LET t == conn_close([s EXCEPT !.active_conns = s.active_conns - 1], c)
  IN  IF t.free_count >= MaxFree
      THEN [t EXCEPT !.heap = t.heap \ {c}]
      ELSE [SetConn(t, c, [t.conn[c] EXCEPT !.next = t.free_head])
            EXCEPT !.free_head = c, !.free_count = t.free_count + 1]

\* Beyond max_free the object is freed, otherwise it is pushed.
conn_pool_put(s, c) ==
  LET t == conn_close(s, c)
  IN  IF t.free_count >= MaxFree
      THEN [t EXCEPT !.heap = t.heap \ {c}]
      ELSE [SetConn(t, c, [t.conn[c] EXCEPT
                             !.wbuf = FALSE, !.upstream_rbuf = FALSE,
                             !.upstream_wbuf = FALSE, !.next = t.free_head])
            EXCEPT !.free_head = c, !.free_count = t.free_count + 1]

worker_conn_close(s, c) ==
  conn_pool_put([s EXCEPT !.active_conns = s.active_conns - 1], c)

\* conn_reset
ResetConn(f) ==
  [fd |-> f, upstream_fd |-> NONE, file_fd |-> NONE,
   state |-> "READING_REQUEST", keep_alive |-> FALSE, wbuf |-> FALSE,
   upstream_rbuf |-> FALSE, upstream_wbuf |-> FALSE, be |-> NONE,
   next |-> NONE]

\* conn_pool_get: the objects it may return (none when malloc fails), and
\* the state once c is taken out of the pool or allocated.
PoolChoice(s) ==
  IF s.free_head # NONE THEN {s.free_head} ELSE Conns \ s.heap

\* Mutant: the head of the free list is not advanced.
GetKeepsHead(s, c, f) ==
  LET t == IF s.free_head # NONE THEN [s EXCEPT !.free_count = s.free_count - 1]
           ELSE [s EXCEPT !.heap = s.heap \cup {c}]
  IN  SetConn(t, c, ResetConn(f))

conn_pool_get(s, c, f) ==
  LET t == IF s.free_head # NONE
           THEN [s EXCEPT !.free_head = s.conn[c].next,
                          !.free_count = s.free_count - 1]
           ELSE [s EXCEPT !.heap = s.heap \cup {c}]
  IN  SetConn(t, c, ResetConn(f))

-----------------------------------------------------------------------------
(* What a write leaves behind: a socket takes all of a buffer or a part of *)
(* it; a write to descriptor -1 takes nothing.                             *)
Flush(f, pending) == IF pending /\ f # NONE THEN BOOLEAN ELSE {pending}

\* upstream.c: get_connection and put_connection.  An idle descriptor is
\* taken from the end of the array; with none idle a socket is connected.
IdleTop(s, b) == s.idle_fds[b][Len(s.idle_fds[b])]

\* Mutant: the socket goes to any backend that has room.
PutWhereRoom(s, b, f) ==
  IF \E a \in Backends : Len(s.idle_fds[a]) < Keepalive
  THEN LET a == CHOOSE a \in Backends : Len(s.idle_fds[a]) < Keepalive
       IN  [s EXCEPT !.idle_fds = [s.idle_fds EXCEPT ![a] = Append(@, f)]]
  ELSE Close(s, f)

upstream_put_connection(s, b, f) ==
  IF Len(s.idle_fds[b]) < Keepalive
  THEN [s EXCEPT !.idle_fds = [s.idle_fds EXCEPT ![b] = Append(@, f)]]
  ELSE Close(s, f)

\* A response written into wbuf by handler_dispatch or by an error path.
LocalResponse(s, c) ==
  SetConn(s, c, [s.conn[c] EXCEPT !.wbuf = TRUE,
                                  !.state = "WRITING_RESPONSE"])

\* The tail of proxy_handle, once descriptor f to backend b is at hand.
StartProxy(s, c, b, f, route) ==
  loop_ctl(SetConn(s, c, [s.conn[c] EXCEPT
             !.be = b, !.upstream_fd = f, !.upstream_wbuf = TRUE,
             !.state = IF route = "tunnel" THEN "TUNNEL" ELSE "PROXYING"]),
           f, "upstream", c, RW)

\* No healthy backend (503) and a failed connect (502) are answered locally.
proxy_handle(s, c, route) ==
  {LocalResponse(s, c)} \cup
  UNION {IF s.idle_fds[b] # <<>>
         THEN {StartProxy([s EXCEPT !.idle_fds =
                 [s.idle_fds EXCEPT ![b] = SubSeq(@, 1, Len(@) - 1)]],
                 c, b, IdleTop(s, b), route)}
         ELSE {StartProxy([s EXCEPT !.open = s.open \cup {f},
                                    !.peer = [s.peer EXCEPT ![f] = b]],
                          c, b, f, route) : f \in Fds \ s.open}
         : b \in Backends}

\* The file is opened, the header is queued and one write is tried; a file
\* that is missing or unchanged is answered locally.
file_server_handle(s, c) ==
  {LocalResponse(s, c)} \cup
  UNION {{worker_client_event_mod(
            SetConn([s EXCEPT !.open = s.open \cup {f}], c,
                    [s.conn[c] EXCEPT !.file_fd = f, !.wbuf = p,
                                      !.state = "SENDFILE"]), c, RW)
          : p \in Flush(s.conn[c].fd, TRUE)} : f \in Fds \ s.open}

\* A cached response larger than the room in wbuf is dropped (handler.c:131),
\* hence the local answer that leaves wbuf alone.
handler_dispatch(s, c) ==
  UNION {CASE route = "local"  -> {LocalResponse(s, c),
                SetConn(s, c, [s.conn[c] EXCEPT !.state = "WRITING_RESPONSE"])}
           [] route = "static" -> file_server_handle(s, c)
           [] OTHER            -> proxy_handle(s, c, route)
         : route \in Routes}

-----------------------------------------------------------------------------
(* worker.c: client events *)

\* Mutant: no return after the close.
CloseFallsThrough(s, c) ==
  LET t == IF s.conn[c].keep_alive
           THEN SetConn(s, c, [s.conn[c] EXCEPT !.state = "READING_REQUEST"])
           ELSE conn_pool_put(s, c)
  IN  worker_client_event_mod(t, c, R)

\* A response is complete: close, or wait for the next request.
KeepAliveOrClose(s, c) ==
  IF s.conn[c].keep_alive
  THEN worker_client_event_mod(
         SetConn(s, c, [s.conn[c] EXCEPT !.state = "READING_REQUEST"]), c, R)
  ELSE conn_pool_put(s, c)

\* handle_write, lines 52-96
WriteFile(s, c) ==
  LET k == s.conn[c]
      flushed == SetConn(s, c, [k EXCEPT !.wbuf = FALSE])
  IN  UNION {IF p THEN {worker_client_event_mod(s, c, RW)}
             ELSE {conn_pool_put(flushed, c),
                   worker_client_event_mod(flushed, c, RW),
                   KeepAliveOrClose(DropFile(flushed, c), c)} : p \in Flush(k.fd, k.wbuf)}

\* Mutant: a proxied response is taken for complete when its buffer is empty.
WriteThenKeepAlive(s, c) ==
  LET k == s.conn[c]
  IN  CASE k.state = "SENDFILE" -> WriteFile(s, c)
        [] k.state \in {"PROXYING", "TUNNEL"} ->
             {IF p THEN worker_client_event_mod(s, c, RW)
              ELSE KeepAliveOrClose(SetConn(s, c, [k EXCEPT !.upstream_rbuf = FALSE]), c)
              : p \in Flush(k.fd, k.upstream_rbuf)}
        [] OTHER ->
             {IF p THEN s
              ELSE IF k.state = "CLOSING" THEN conn_pool_put(s, c)
              ELSE KeepAliveOrClose(SetConn(s, c, [k EXCEPT !.wbuf = FALSE]), c)
              : p \in Flush(k.fd, k.wbuf)}

handle_write(s, c) ==
  LET k == s.conn[c]
  IN  CASE k.state = "SENDFILE" -> WriteFile(s, c)
        [] k.state \in {"PROXYING", "TUNNEL"} ->
             {worker_client_event_mod(
                SetConn(s, c, [k EXCEPT !.upstream_rbuf = p]), c,
                IF p THEN RW ELSE R) : p \in Flush(k.fd, k.upstream_rbuf)}
        [] OTHER ->
             {IF p THEN s
              ELSE IF k.state = "CLOSING" THEN conn_pool_put(s, c)
              ELSE KeepAliveOrClose(SetConn(s, c, [k EXCEPT !.wbuf = FALSE]), c)
              : p \in Flush(k.fd, k.wbuf)}

\* handle_read in a tunnel, lines 133-163: what the client sent goes to the
\* upstream socket.
ReadTunnel(s, c) ==
  LET k == s.conn[c]
  IN  (IF LateFin THEN {worker_conn_close(s, c)} ELSE {})
      \cup (IF k.upstream_wbuf THEN {} ELSE {s})
      \cup {loop_ctl(SetConn(s, c, [k EXCEPT !.upstream_wbuf = p]),
                     k.upstream_fd, "upstream", c, IF p THEN RW ELSE R)
            : p \in Flush(k.upstream_fd, TRUE)}

\* handle_read after handler_dispatch, lines 207-229.
AfterDispatch(s, c) ==
  LET k == s.conn[c]
  IN  IF k.state \in {"PROXYING", "TUNNEL"} \/ s.phase = "crashed" THEN {s}
      ELSE {IF p
            THEN worker_client_event_mod(
                   SetConn(s, c, [k EXCEPT !.state = "WRITING_RESPONSE"]), c, W)
            ELSE KeepAliveOrClose(SetConn(s, c, [k EXCEPT !.wbuf = FALSE]), c)
            : p \in Flush(k.fd, k.wbuf)}

\* Nothing complete yet; the connection found closed; a malformed request; a
\* request that is dispatched and whose response is flushed.  A read of
\* descriptor -1 is an error.
handle_read(s, c) ==
  LET k == s.conn[c]
      request == k.state # "PROXYING" \/ Overlap
  IN  IF k.state = "TUNNEL" THEN ReadTunnel(s, c)
      ELSE IF k.fd = NONE THEN {conn_pool_put(s, c)}
      ELSE {s}
        \cup (IF LateFin THEN {conn_pool_put(s, c)} ELSE {})
        \cup (IF request
              THEN {worker_client_event_mod(LocalResponse(s, c), c, W)}
                   \cup UNION {UNION {AfterDispatch(t, c) : t \in
                          handler_dispatch(
                            SetConn(s, c, [k EXCEPT !.keep_alive = ka]), c)}
                        : ka \in BOOLEAN}
              ELSE {})

\* The second handler runs on the same conn_t, whatever the first one did.
on_client_event(s, c, ev) ==
  IF c \notin s.heap THEN {Crash(s)}
  ELSE IF "HUP" \in ev THEN {conn_pool_put(s, c)}
  ELSE LET afterRead == IF "READ" \in ev THEN handle_read(s, c) ELSE {s}
       IN  IF "WRITE" \notin ev THEN afterRead
           ELSE UNION {IF t.phase = "crashed" THEN {t}
                       ELSE IF c \notin t.heap THEN {Crash(t)}
                       ELSE handle_write(t, c) : t \in afterRead}

\* Descriptor f is accepted and conn_t c is taken for it.
NewConn(s, c, f) ==
  loop_ctl([conn_pool_get(s, c, f) EXCEPT !.accepted = s.accepted + 1,
                                          !.active_conns = s.active_conns + 1],
           f, "client", c, R)

\* One turn of the loop of on_accept_event: no descriptor left (accept
\* fails), no memory (the socket is closed again), or a new connection.
AcceptOne(s) ==
  IF s.open = Fds \/ s.accepted >= MaxAccepts THEN {s}
  ELSE IF PoolChoice(s) = {} THEN {[s EXCEPT !.accepted = s.accepted + 1]}
  ELSE IF s.free_head # NONE /\ s.free_head \notin s.heap THEN {Crash(s)}
  ELSE UNION {{NewConn([s EXCEPT !.open = s.open \cup {f}], c, f)
               : c \in PoolChoice(s)} : f \in Fds \ s.open}

\* The loop takes every pending connection: one, or two, in one event.
on_accept_event(s) ==
  AcceptOne(s) \cup
  UNION {IF t.phase = "crashed" THEN {t} ELSE AcceptOne(t) : t \in AcceptOne(s)}

-----------------------------------------------------------------------------
(* proxy_conn.c: upstream events *)

\* What was read is copied to the client; what the client did not take makes
\* the client descriptor wait for EV_WRITE.
Relay(s, c, pending) ==
  LET t == SetConn(s, c, [s.conn[c] EXCEPT !.upstream_rbuf = pending])
  IN  IF pending THEN worker_client_event_mod(t, c, RW) ELSE t

\* Mutant: conn->upstream_fd keeps its value.
UnlinkKeepsFd(s, f, c) == event_loop_del(s, f)

\* event_loop_del(fd); conn->upstream_fd = -1, whatever it was.
Unlink(s, f, c) ==
  LET t == event_loop_del(s, f)
  IN  SetConn(t, c, [t.conn[c] EXCEPT !.upstream_fd = NONE])

\* Mutant: the client connection is kept open while it has bytes to send.
ClosedKeepsClient(s, f, c) ==
  LET t == Close(Unlink(s, f, c), f)
  IN  IF t.conn[c].upstream_rbuf THEN t ELSE worker_conn_close(t, c)

\* The end of the response: the socket of a proxied exchange goes to the
\* idle pool of the backend the conn_t names now, that of a tunnel is closed.
UpstreamClosed(s, f, c) ==
  LET t == Unlink([s EXCEPT !.eof = s.eof \cup {f}], f, c)
  IN  worker_conn_close(
        IF t.conn[c].state # "TUNNEL" /\ t.conn[c].be # NONE
        THEN upstream_put_connection(t, t.conn[c].be, f) ELSE Close(t, f), c)

UpstreamError(s, f, c) == worker_conn_close(Close(Unlink(s, f, c), f), c)

\* Lines 76-156: read and relay until nothing is left, the peer has closed
\* or the read fails.  A descriptor that has reported EOF reports it again.
UpstreamRead(s, f, c) ==
  LET k == s.conn[c]
      left == IF f \in s.eof THEN {k.upstream_rbuf}
              ELSE {k.upstream_rbuf} \cup Flush(k.fd, TRUE)
      reads == {Relay(s, c, p) : p \in left}
  IN  {t \in reads : t.phase = "crashed" \/ f \notin s.eof}
      \cup UNION {{UpstreamClosed(t, f, c), UpstreamError(t, f, c)}
                  : t \in {u \in reads : u.phase # "crashed"}}

\* Lines 60-74: a write error answers 502 and closes the connection.
proxy_on_upstream_event(s, f, c, ev) ==
  LET k == s.conn[c]
      failed == IF "WRITE" \in ev /\ k.upstream_wbuf
                THEN {worker_conn_close(LocalResponse(s, c), c)} ELSE {}
      Written(p) ==
        IF p THEN s
        ELSE loop_ctl(SetConn(s, c, [k EXCEPT !.upstream_wbuf = FALSE]),
                      f, "upstream", c, R)
      sent == IF "WRITE" \in ev
              THEN {Written(p) : p \in Flush(f, k.upstream_wbuf)} ELSE {s}
  IN  IF c \notin s.heap THEN {Crash(s)}
      ELSE failed \cup (IF "READ" \in ev
                        THEN UNION {UpstreamRead(t, f, c) : t \in sent}
                        ELSE sent)

-----------------------------------------------------------------------------
(* event_loop_run and worker_run *)

Init ==
  /\ conn = [c \in Conns |-> ResetConn(NONE)]
  /\ heap = {} /\ free_head = NONE /\ free_count = 0
  /\ handlers = [f \in Fds |-> NONE] /\ batch = <<>> /\ fresh = {}
  /\ open = {} /\ eof = {} /\ peer = [f \in Fds |-> NONE]
  /\ idle_fds = [b \in Backends |-> <<>>]
  /\ active_conns = 0 /\ accepted = 0 /\ phase = "running"

\* What epoll may report of a descriptor: a hang-up, or some of the events
\* it is registered for.
Readiness(f) ==
  (SUBSET handlers[f].ev \ {{}})
  \cup (IF handlers[f].fn = "client" THEN {{"HUP"}} ELSE {})

Reports ==
  {[fd |-> LISTENER, ev |-> R, freed |-> FALSE]} \cup
  UNION {{[fd |-> f, ev |-> e, freed |-> FALSE] : e \in Readiness(f)}
         : f \in {g \in Fds : handlers[g] # NONE}}

\* epoll_wait returns up to max_events descriptors, in any order.
epoll_wait ==
  /\ phase = "running" /\ batch = <<>>
  /\ \E n \in 1..MaxEvents : \E q \in [1..n -> Reports] :
       /\ \A i, j \in 1..n : i # j => q[i].fd # q[j].fd
       /\ batch' = q
  /\ fresh' = {}
  /\ UNCHANGED <<conn, heap, free_head, free_count, handlers, open, peer, eof,
                 idle_fds, active_conns, accepted, phase>>

Popped == [S EXCEPT !.batch = Tail(batch)]

Invoke(f, ev) ==
  IF handlers[f].fn = "client"
  THEN \E s \in on_client_event(Popped, handlers[f].ctx, ev) : Becomes(s)
  ELSE \E s \in proxy_on_upstream_event(Popped, f, handlers[f].ctx, ev) :
         Becomes(s)

Dispatching == phase \in {"running", "stopping"} /\ batch # <<>>

DispatchAccept ==
  /\ Dispatching /\ Head(batch).fd = LISTENER
  /\ \E s \in on_accept_event(Popped) : Becomes(s)

Dispatch ==
  /\ Dispatching /\ Head(batch).fd # LISTENER /\ ~Head(batch).freed
  /\ Invoke(Head(batch).fd, Head(batch).ev)

\* The block was freed earlier in this batch: either it still is (the call
\* goes through a dangling function pointer) or it has been allocated again
\* and the event reaches another descriptor's handler.
DispatchFreed ==
  /\ Dispatching /\ Head(batch).fd # LISTENER /\ Head(batch).freed
  /\ \/ Becomes(Crash(Popped))
     \/ \E f \in fresh : Invoke(f, Head(batch).ev)

\* signal.c: SIGTERM or SIGINT read from the signalfd.
SignalStop ==
  /\ phase = "running" /\ phase' = "stopping"
  /\ UNCHANGED <<conn, heap, free_head, free_count, handlers, batch, fresh,
                 open, peer, eof, idle_fds, active_conns, accepted>>

\* The loop ends when the batch does; the drain loop only sleeps, until the
\* counter is zero or shutdown_timeout has passed; then the worker exits.
Drain ==
  /\ phase = "stopping" /\ batch = <<>> /\ phase' = "exited"
  /\ UNCHANGED <<conn, heap, free_head, free_count, handlers, batch, fresh,
                 open, peer, eof, idle_fds, active_conns, accepted>>

Next == epoll_wait \/ DispatchAccept \/ Dispatch \/ DispatchFreed
        \/ SignalStop \/ Drain

Spec == Init /\ [][Next]_vars

-----------------------------------------------------------------------------
TypeOK ==
  /\ conn \in [Conns -> ConnT] /\ heap \subseteq Conns
  /\ free_head \in Conns \cup {NONE} /\ free_count \in Int
  /\ handlers \in [Fds -> HandlerT \cup {NONE}]
  /\ batch \in Seq(EventT) /\ fresh \subseteq Fds
  /\ open \subseteq Fds /\ eof \subseteq Fds
  /\ peer \in [Fds -> Backends \cup {NONE}]
  /\ idle_fds \in [Backends -> Seq(Fds)]
  /\ active_conns \in Int /\ accepted \in Nat
  /\ phase \in {"running", "stopping", "exited", "crashed"}

InUse == {c \in heap : conn[c].fd # NONE}

IdleSet == UNION {{idle_fds[b][i] : i \in DOMAIN idle_fds[b]} : b \in Backends}

Owned == UNION {{conn[c].fd, conn[c].upstream_fd, conn[c].file_fd} : c \in heap}

\* The free list, followed from free_head for free_count objects.
FreeList[i \in Nat] ==
  IF i = 0 THEN free_head
  ELSE IF FreeList[i - 1] = NONE THEN NONE ELSE conn[FreeList[i - 1]].next

(***************************************************************************)
(* Holds whatever the clients and the network do.                          *)
(***************************************************************************)

\* Descriptors have one owner.  A registered descriptor is open; the client
\* and the upstream descriptor of a conn_t are registered for that conn_t;
\* a file descriptor and an idle upstream descriptor are open, unregistered
\* and held once.  conn_close, proxy_on_upstream_event and the idle pool can
\* therefore never close a descriptor number that someone else has reused.
DescriptorsOwned ==
  /\ \A f \in Fds : handlers[f] # NONE => f \in open
  /\ \A c \in Conns, f \in Fds :
       /\ conn[c].fd = f =>
            handlers[f] # NONE /\ handlers[f].fn = "client" /\ handlers[f].ctx = c
       /\ conn[c].upstream_fd = f =>
            handlers[f] # NONE /\ handlers[f].fn = "upstream" /\ handlers[f].ctx = c
       /\ conn[c].file_fd = f =>
            /\ f \in open /\ handlers[f] = NONE /\ f \notin IdleSet
            /\ \A d \in Conns \ {c} : conn[d].file_fd # f
  /\ \A f \in IdleSet : f \in open /\ handlers[f] = NONE
  /\ \A a, b \in Backends : \A i \in DOMAIN idle_fds[a], j \in DOMAIN idle_fds[b] :
       idle_fds[a][i] = idle_fds[b][j] => a = b /\ i = j

\* handle_read in CONN_TUNNEL registers conn->upstream_fd without a check
\* (worker.c:155): it is never -1, whatever closed before.
TunnelHasUpstream ==
  \A c \in heap : conn[c].state \in {"PROXYING", "TUNNEL"}
                    => conn[c].upstream_fd # NONE

(***************************************************************************)
(* Holds for a client that waits for the end of a proxied response before  *)
(* it sends again, when a FIN is reported by epoll before it is read and   *)
(* events are taken one at a time.                                         *)
(***************************************************************************)

\* The free list is a list: free_count different allocated objects, none in
\* use, then NULL.  A second conn_pool_put of the same conn_t would make it
\* a cycle, and conn_pool_get would hand one object to two clients.
PoolSound ==
  /\ free_count \in Nat /\ FreeList[free_count] = NONE
  /\ \A i \in 0..(free_count - 1) :
       /\ FreeList[i] \in heap /\ conn[FreeList[i]].fd = NONE
       /\ conn[FreeList[i]].upstream_fd = NONE
       /\ \A j \in 0..(i - 1) : FreeList[j] # FreeList[i]

\* Every registered handler's context is an allocated conn_t that still
\* holds the descriptor: an event never acts on another connection.
HandlerOwnerLive ==
  \A f \in Fds : handlers[f] # NONE =>
    /\ handlers[f].ctx \in heap
    /\ f = IF handlers[f].fn = "client" THEN conn[handlers[f].ctx].fd
           ELSE conn[handlers[f].ctx].upstream_fd

\* No descriptor is lost: what is open is held by a conn_t or is idle.
NoFdLeak == open \subseteq Owned \cup IdleSet

\* An idle socket is kept by the backend it is connected to, so a request
\* balanced to one backend is not sent to another one.
IdleBelongs ==
  \A b \in Backends : \A i \in DOMAIN idle_fds[b] : peer[idle_fds[b][i]] = b

\* active_conns never falls below the connections in use, so the drain loop
\* (worker.c:345) is not left early.
ActiveCoversInUse == Cardinality(InUse) <= active_conns

\* The worker never calls through a freed handler block, touches a freed
\* conn_t or registers descriptor -1.
NoCrash == phase # "crashed"

\* architecture.md:139: a proxied exchange ends by closing the connection.
ProxyingUntilClosed ==
  [][\A c \in heap : conn[c].state = "PROXYING"
                       => conn'[c].state \in {"PROXYING", "CLOSING"}]_vars

(***************************************************************************)
(* What the documentation says and the code does not do.                   *)
(***************************************************************************)

\* architecture.md:95: each descriptor's events go to its registered handler
\* block; a dispatched event must not point to a freed one.
DispatchLive == batch # <<>> => ~Head(batch).freed

\* proxy.md:75: the idle pool holds connections that the next request to
\* the backend can use, so none that the backend has already closed.
IdleUsable == IdleSet \cap eof = {}

\* worker.c:339 reports active_conns as the number of active connections.
ActiveExact == active_conns = Cardinality(InUse)

\* cli.md:64: workers finish in-flight requests, then exit.
DrainFinishes ==
  phase = "exited" =>
    \A c \in InUse : conn[c].state \notin {"WRITING_RESPONSE", "PROXYING"}

\* architecture.md:138: a static file is held until sendfile is complete,
\* which is state CONN_SENDFILE.
FileWhileSending ==
  \A c \in heap : conn[c].file_fd # NONE => conn[c].state = "SENDFILE"
=============================================================================
