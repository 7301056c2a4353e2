---------------------------- MODULE WorkerProofs ----------------------------
(***************************************************************************)
(* For any number of connections, descriptors and backends, and whatever   *)
(* the clients and the network do: TypeOK and DescriptorsOwned.  One lemma *)
(* per handler, built from the lemmas of WorkerLemmas about the functions  *)
(* it calls, then the steps of the specification.                          *)
(***************************************************************************)
EXTENDS WorkerLemmas

-----------------------------------------------------------------------------
(* handler_dispatch and what it calls *)

\* A response of the proxy itself touches no descriptor.
LEMMA LocalResponseSound ==
  ASSUME NEW s, Sound(s), NEW c \in Conns
  PROVE  Sound(LocalResponse(s, c))
<1>. DEFINE r == [s.conn[c] EXCEPT !.wbuf = TRUE, !.state = "WRITING_RESPONSE"]
<1>1. s.conn[c] \in ConnT
  BY DEF Sound, StateT
<1>2. /\ r \in ConnT /\ r.fd = s.conn[c].fd
      /\ r.upstream_fd = s.conn[c].upstream_fd
      /\ r.file_fd = s.conn[c].file_fd
  BY <1>1, Zenon DEF ConnT, ConnState
<1>3. LocalResponse(s, c) = SetConn(s, c, r)
  BY DEF LocalResponse
<1>. HIDE DEF r
<1>. QED
  BY <1>2, <1>3, SetConnSound

\* The upstream descriptor in hand is registered for the conn_t.
LEMMA StartProxySound ==
  ASSUME NEW s, Sound(s), NEW c \in Conns, NEW b \in Backends, NEW f,
         InHand(s, f), NEW route
  PROVE  Sound(StartProxy(s, c, b, f, route))
<1>. DEFINE r == [s.conn[c] EXCEPT
                    !.be = b, !.upstream_fd = f, !.upstream_wbuf = TRUE,
                    !.state = IF route = "tunnel" THEN "TUNNEL" ELSE "PROXYING"]
            x == SetConn(s, c, r)
<1>1. s \in StateT /\ s.conn[c] \in ConnT /\ f \in Fds
  BY Zenon DEF Sound, StateT, InHand
<1>2. /\ r \in ConnT /\ r.fd = s.conn[c].fd
      /\ r.upstream_fd = f /\ r.file_fd = s.conn[c].file_fd
  BY ONLY <1>1, ZenonT(60) DEF ConnT, ConnState
<1>3. StartProxy(s, c, b, f, route) = loop_ctl(x, f, "upstream", c, RW)
  BY DEF StartProxy
<1>. HIDE DEF r
<1>4. /\ x \in StateT /\ x.conn = [s.conn EXCEPT ![c] = r]
      /\ x.handlers = s.handlers /\ x.open = s.open /\ x.batch = s.batch
      /\ x.fresh = s.fresh /\ x.idle_fds = s.idle_fds
  BY <1>1, <1>2, SetConnFields
<1>. HIDE DEF x
<1>5. "upstream" \in {"client", "upstream"} /\ RW \in SUBSET RW
  OBVIOUS
<1>. QED
  BY <1>2, <1>3, <1>4, <1>5, RegisterSound

\* proxy_handle: an idle socket, a new one, or an error response.
LEMMA ProxyHandleSound ==
  ASSUME NEW s, Sound(s), NEW c \in Conns, NEW route,
         NEW t \in proxy_handle(s, c, route)
  PROVE  Sound(t)
<1>1. CASE t = LocalResponse(s, c)
  BY <1>1, LocalResponseSound
<1>2. ASSUME NEW b \in Backends, s.idle_fds[b] # <<>>,
             t = StartProxy([s EXCEPT !.idle_fds =
                   [s.idle_fds EXCEPT ![b] = SubSeq(@, 1, Len(@) - 1)]],
                   c, b, IdleTop(s, b), route)
      PROVE  Sound(t)
  BY <1>2, IdlePopSound, StartProxySound, Zenon
<1>3. ASSUME NEW b \in Backends, NEW f \in Fds \ s.open,
             t = StartProxy([s EXCEPT !.open = s.open \cup {f},
                                      !.peer = [s.peer EXCEPT ![f] = b]],
                            c, b, f, route)
      PROVE  Sound(t)
  <2>. DEFINE x == [s EXCEPT !.open = s.open \cup {f},
                             !.peer = [s.peer EXCEPT ![f] = b]]
  <2>1. /\ x \in StateT /\ x.open = s.open \cup {f} /\ x.conn = s.conn
        /\ x.handlers = s.handlers /\ x.batch = s.batch
        /\ x.fresh = s.fresh /\ x.idle_fds = s.idle_fds
    BY Zenon DEF Sound, StateT
  <2>2. t = StartProxy(x, c, b, f, route)
    BY <1>3
  <2>. HIDE DEF x
  <2>3. Sound(x) /\ InHand(x, f)
    BY <2>1, OpenSound
  <2>. QED
    BY <2>2, <2>3, StartProxySound
<1>. QED
  BY <1>1, <1>2, <1>3, Zenon DEF proxy_handle

\* file_server_handle: the file it opens is held by the conn_t alone.
LEMMA FileServerSound ==
  ASSUME NEW s, Sound(s), NEW c \in Conns, NEW t \in file_server_handle(s, c)
  PROVE  Sound(t)
<1>1. CASE t = LocalResponse(s, c)
  BY <1>1, LocalResponseSound, Zenon
<1>2. ASSUME NEW f \in Fds \ s.open, NEW p \in BOOLEAN,
             t = worker_client_event_mod(
                   SetConn([s EXCEPT !.open = s.open \cup {f}], c,
                           [s.conn[c] EXCEPT !.file_fd = f, !.wbuf = p,
                                             !.state = "SENDFILE"]), c, RW)
      PROVE  Sound(t)
  <2>. DEFINE x == [s EXCEPT !.open = s.open \cup {f}]
              r == [s.conn[c] EXCEPT !.file_fd = f, !.wbuf = p,
                                     !.state = "SENDFILE"]
              y == SetConn(x, c, r)
  <2>1. /\ x \in StateT /\ x.open = s.open \cup {f} /\ x.conn = s.conn
        /\ x.handlers = s.handlers /\ x.batch = s.batch
        /\ x.fresh = s.fresh /\ x.idle_fds = s.idle_fds
    BY Zenon DEF Sound, StateT
  <2>2. t = worker_client_event_mod(y, c, RW)
    BY <1>2
  <2>3. s.conn[c] \in ConnT
    BY DEF Sound, StateT
  <2>4. /\ r \in ConnT /\ r.fd = s.conn[c].fd
        /\ r.upstream_fd = s.conn[c].upstream_fd /\ r.file_fd = f
    BY ONLY <2>3, Zenon DEF ConnT, ConnState
  <2>. HIDE DEF x, r
  <2>5. Sound(x) /\ InHand(x, f)
    BY <2>1, OpenSound, Zenon
  <2>6. /\ y \in StateT /\ y.open = x.open /\ y.conn = [x.conn EXCEPT ![c] = r]
        /\ y.handlers = x.handlers /\ y.batch = x.batch
        /\ y.fresh = x.fresh /\ y.idle_fds = x.idle_fds
    BY ONLY <2>1, <2>4, SetConnFields
  <2>. HIDE DEF y
  <2>7. /\ x.conn \in [Conns -> ConnT] /\ f \in Fds
        /\ Registered(x) /\ ClientHeld(x) /\ UpstreamHeld(x)
        /\ FileHeld(x) /\ IdleHeld(x) /\ BatchLive(x)
        /\ f \in x.open /\ x.handlers[f] = NONE /\ ~Idle(x, f)
        /\ \A d \in Conns : x.conn[d].file_fd # f
    BY ONLY <2>5 DEF Sound, StateT, InHand
  <2>8. y.conn[c] = r /\ \A d \in Conns \ {c} : y.conn[d] = x.conn[d]
    BY <2>6, <2>7, Zenon
  <2>9. \A d \in Conns : /\ y.conn[d].fd = x.conn[d].fd
                         /\ y.conn[d].upstream_fd = x.conn[d].upstream_fd
                         /\ d # c => y.conn[d].file_fd = x.conn[d].file_fd
    BY <2>1, <2>4, <2>8, Zenon
  <2>10. Registered(y) /\ IdleHeld(y) /\ BatchLive(y)
    BY ONLY <2>6, <2>7 DEF Registered, IdleHeld, BatchLive
  <2>13. ClientHeld(y) /\ UpstreamHeld(y)
    BY ONLY <2>6, <2>7, <2>9 DEF ClientHeld, UpstreamHeld
  <2>14. y.conn[c].file_fd = f
    BY ONLY <2>4, <2>8
  <2>11. FileHeld(y)
    BY ONLY <2>6, <2>7, <2>9, <2>14 DEF FileHeld, Idle
  <2>12. Sound(y)
    BY ONLY <2>6, <2>10, <2>11, <2>13, Zenon DEF Sound
  <2>. QED
    BY <2>2, <2>12, ClientModSound
<1>3. Flush(s.conn[c].fd, TRUE) \subseteq BOOLEAN
  BY Zenon DEF Flush
<1>4. \/ t = LocalResponse(s, c)
      \/ \E f \in Fds \ s.open : \E p \in Flush(s.conn[c].fd, TRUE) :
           t = worker_client_event_mod(
                 SetConn([s EXCEPT !.open = s.open \cup {f}], c,
                         [s.conn[c] EXCEPT !.file_fd = f, !.wbuf = p,
                                           !.state = "SENDFILE"]), c, RW)
  BY Zenon DEF file_server_handle
<1>. QED
  BY <1>1, <1>2, <1>3, <1>4, Zenon

\* handler_dispatch, whichever route it takes.
LEMMA DispatchSound ==
  ASSUME NEW s, Sound(s), NEW c \in Conns, NEW t \in handler_dispatch(s, c)
  PROVE  Sound(t)
<1>. DEFINE r == [s.conn[c] EXCEPT !.state = "WRITING_RESPONSE"]
<1>1. s.conn[c] \in ConnT
  BY DEF Sound, StateT
<1>2. /\ r \in ConnT /\ r.fd = s.conn[c].fd
      /\ r.upstream_fd = s.conn[c].upstream_fd
      /\ r.file_fd = s.conn[c].file_fd
  BY <1>1, SMTT(60) DEF ConnT, ConnState
<1>. HIDE DEF r
<1>3. Sound(SetConn(s, c, r))
  BY <1>2, SetConnSound
<1>4. PICK route \in Routes :
        t \in CASE route = "local"  -> {LocalResponse(s, c), SetConn(s, c, r)}
              [] route = "static" -> file_server_handle(s, c)
              [] OTHER            -> proxy_handle(s, c, route)
  BY DEF handler_dispatch, r
<1>5. CASE route = "local"
  BY <1>3, <1>4, <1>5, LocalResponseSound, SMTT(60)
<1>6. CASE route = "static"
  <2>1. t \in file_server_handle(s, c)
    BY <1>4, <1>6
  <2>. QED
    BY <2>1, FileServerSound
<1>7. CASE route \notin {"local", "static"}
  <2>1. t \in proxy_handle(s, c, route)
    BY <1>4, <1>7, SMTT(60)
  <2>. QED
    BY <2>1, ProxyHandleSound
<1>. QED
  BY <1>5, <1>6, <1>7, SMTT(60)

-----------------------------------------------------------------------------
(* Client events *)

\* The end of a response: reset for the next request, or closed.
LEMMA KeepAliveOrCloseSound ==
  ASSUME NEW s, Sound(s), NEW c \in Conns
  PROVE  Sound(KeepAliveOrClose(s, c))
<1>. DEFINE r == [s.conn[c] EXCEPT !.state = "READING_REQUEST"]
<1>1. s.conn[c] \in ConnT
  BY DEF Sound, StateT
<1>2. /\ r \in ConnT /\ r.fd = s.conn[c].fd
      /\ r.upstream_fd = s.conn[c].upstream_fd
      /\ r.file_fd = s.conn[c].file_fd
  BY <1>1 DEF ConnT, ConnState
<1>3. KeepAliveOrClose(s, c) =
        IF s.conn[c].keep_alive
        THEN worker_client_event_mod(SetConn(s, c, r), c, R)
        ELSE conn_pool_put(s, c)
  BY SMTT(60) DEF KeepAliveOrClose
<1>. HIDE DEF r
<1>4. Sound(SetConn(s, c, r)) /\ R \in SUBSET RW
  BY <1>2, SetConnSound DEF R, RW
<1>. QED
  BY <1>3, <1>4, ClientModSound, PoolPutSound, SMTT(60)

\* One of the flags of a conn_t changes.
LEMMA FlagSound ==
  ASSUME NEW s, Sound(s), NEW c \in Conns, NEW p \in BOOLEAN
  PROVE  /\ Sound(SetConn(s, c, [s.conn[c] EXCEPT !.wbuf = p]))
         /\ Sound(SetConn(s, c, [s.conn[c] EXCEPT !.upstream_rbuf = p]))
         /\ Sound(SetConn(s, c, [s.conn[c] EXCEPT !.upstream_wbuf = p]))
         /\ Sound(SetConn(s, c, [s.conn[c] EXCEPT !.keep_alive = p]))
         /\ Sound(SetConn(s, c, [s.conn[c] EXCEPT !.state = "WRITING_RESPONSE"]))
<1>1. s.conn[c] \in ConnT
  BY DEF Sound, StateT
<1>2. ASSUME NEW r \in {[s.conn[c] EXCEPT !.wbuf = p],
                        [s.conn[c] EXCEPT !.upstream_rbuf = p],
                        [s.conn[c] EXCEPT !.upstream_wbuf = p],
                        [s.conn[c] EXCEPT !.keep_alive = p],
                        [s.conn[c] EXCEPT !.state = "WRITING_RESPONSE"]}
      PROVE  Sound(SetConn(s, c, r))
  <2>1. /\ r \in ConnT /\ r.fd = s.conn[c].fd
        /\ r.upstream_fd = s.conn[c].upstream_fd
        /\ r.file_fd = s.conn[c].file_fd
    BY <1>1 DEF ConnT, ConnState
  <2>. QED
    BY <2>1, SetConnSound
<1>. QED
  BY <1>2, SMTT(60)

\* A flush leaves a flag.
LEMMA FlushBoolean ==
  ASSUME NEW f, NEW pending \in BOOLEAN
  PROVE  Flush(f, pending) \subseteq BOOLEAN
BY SMTT(60) DEF Flush

\* handle_write in CONN_SENDFILE.
LEMMA WriteFileSound ==
  ASSUME NEW s, Sound(s), NEW c \in Conns, NEW t \in WriteFile(s, c)
  PROVE  Sound(t)
<1>. DEFINE flushed == SetConn(s, c, [s.conn[c] EXCEPT !.wbuf = FALSE])
<1>1. Sound(flushed)
  BY FlagSound, Zenon
<1>2. t \in {worker_client_event_mod(s, c, RW), conn_pool_put(flushed, c),
             worker_client_event_mod(flushed, c, RW),
             KeepAliveOrClose(DropFile(flushed, c), c)}
  BY ZenonT(60) DEF WriteFile
<1>. HIDE DEF flushed
<1>. QED
  BY <1>1, <1>2, ClientModSound, PoolPutSound, DropFileSound,
     KeepAliveOrCloseSound, SMTT(60)

\* handle_write in every state.
LEMMA HandleWriteSound ==
  ASSUME NEW s, Sound(s), NEW c \in Conns, NEW t \in handle_write(s, c)
  PROVE  Sound(t)
<1>. DEFINE k == s.conn[c]
<1>1. k \in ConnT /\ k.wbuf \in BOOLEAN /\ k.upstream_rbuf \in BOOLEAN
  BY DEF Sound, StateT, ConnT
<1>2. CASE k.state = "SENDFILE"
  BY <1>2, WriteFileSound DEF handle_write
<1>3. CASE k.state \in {"PROXYING", "TUNNEL"}
  <2>1. PICK p \in Flush(k.fd, k.upstream_rbuf) :
          t = worker_client_event_mod(
                SetConn(s, c, [k EXCEPT !.upstream_rbuf = p]), c,
                IF p THEN RW ELSE R)
    BY <1>3 DEF handle_write
  <2>2. p \in BOOLEAN /\ (IF p THEN RW ELSE R) \in SUBSET RW
    BY <1>1, <2>1, FlushBoolean, SMTT(60) DEF R, RW
  <2>3. Sound(SetConn(s, c, [k EXCEPT !.upstream_rbuf = p]))
    BY <2>2, FlagSound, Zenon
  <2>. QED
    BY <2>1, <2>2, <2>3, ClientModSound
<1>4. CASE k.state \notin {"SENDFILE", "PROXYING", "TUNNEL"}
  <2>1. \/ t = s
        \/ t = conn_pool_put(s, c)
        \/ t = KeepAliveOrClose(SetConn(s, c, [k EXCEPT !.wbuf = FALSE]), c)
    BY <1>4, Zenon DEF handle_write
  <2>2. Sound(SetConn(s, c, [k EXCEPT !.wbuf = FALSE]))
    BY FlagSound, Zenon
  <2>. QED
    BY <2>1, <2>2, PoolPutSound, KeepAliveOrCloseSound
<1>. QED
  BY <1>2, <1>3, <1>4

\* handle_read in CONN_TUNNEL.
LEMMA ReadTunnelSound ==
  ASSUME NEW s, Sound(s), NEW c \in Conns, NEW t \in ReadTunnel(s, c)
  PROVE  Sound(t)
<1>. DEFINE k == s.conn[c]
            g == k.upstream_fd
<1>1. k \in ConnT /\ g \in Fds \cup {NONE} /\ s \in StateT
  BY Zenon DEF Sound, StateT, ConnT
<1>2. CASE t = worker_conn_close(s, c)
  BY <1>2, WorkerConnCloseSound
<1>3. CASE t = s
  BY <1>3
<1>4. ASSUME NEW p \in BOOLEAN,
             t = loop_ctl(SetConn(s, c, [k EXCEPT !.upstream_wbuf = p]), g,
                          "upstream", c, IF p THEN RW ELSE R)
      PROVE  Sound(t)
  <2>. DEFINE r == [k EXCEPT !.upstream_wbuf = p]
              x == SetConn(s, c, r)
              ev == IF p THEN RW ELSE R
  <2>1. Sound(x)
    BY FlagSound, Zenon
  <2>2. r \in ConnT /\ ev \in SUBSET RW
    BY <1>1 DEF ConnT, R, RW
  <2>3. t = loop_ctl(x, g, "upstream", c, ev)
    BY <1>4
  <2>4. CASE g = NONE
    <3>1. t = Crash(x)
      BY <2>3, <2>4 DEF loop_ctl
    <3>. QED
      BY <2>1, <3>1, CrashSound
  <2>5. CASE g \in Fds
    <3>1. x.handlers = s.handlers
      BY ONLY <1>1, <2>2, SetConnFields, Zenon
    <3>2. s.handlers[g] # NONE /\ s.handlers[g].fn = "upstream"
          /\ s.handlers[g].ctx = c
      BY <2>5 DEF Sound, UpstreamHeld
    <3>. HIDE DEF x, g, ev
    <3>. QED
      BY <2>1, <2>2, <2>3, <2>5, <3>1, <3>2, LoopCtlSound
  <2>. QED
    BY <1>1, <2>4, <2>5, SMTT(60)
<1>5. Flush(g, TRUE) \subseteq BOOLEAN
  BY FlushBoolean, Zenon
<1>. QED
  BY <1>2, <1>3, <1>4, <1>5, Zenon DEF ReadTunnel

\* What handle_read does after handler_dispatch has returned.
LEMMA AfterDispatchSound ==
  ASSUME NEW s, Sound(s), NEW c \in Conns, NEW t \in AfterDispatch(s, c)
  PROVE  Sound(t)
<1>. DEFINE k == s.conn[c]
            x == SetConn(s, c, [k EXCEPT !.state = "WRITING_RESPONSE"])
            y == SetConn(s, c, [k EXCEPT !.wbuf = FALSE])
<1>1. Sound(x) /\ Sound(y) /\ W \in SUBSET RW
  BY FlagSound, Zenon DEF W, RW
<1>2. \/ t = s
      \/ t = worker_client_event_mod(x, c, W)
      \/ t = KeepAliveOrClose(y, c)
  BY ZenonT(60) DEF AfterDispatch
<1>. HIDE DEF x, y
<1>. QED
  BY <1>1, <1>2, ClientModSound, KeepAliveOrCloseSound

\* handle_read in every state.
LEMMA HandleReadSound ==
  ASSUME NEW s, Sound(s), NEW c \in Conns, NEW t \in handle_read(s, c)
  PROVE  Sound(t)
<1>. DEFINE k == s.conn[c]
<1>1. CASE k.state = "TUNNEL"
  BY <1>1, ReadTunnelSound DEF handle_read
<1>2. CASE t = s
  BY <1>2
<1>3. CASE t = conn_pool_put(s, c)
  BY <1>3, PoolPutSound
<1>4. CASE t = worker_client_event_mod(LocalResponse(s, c), c, W)
  <2>1. Sound(LocalResponse(s, c)) /\ W \in SUBSET RW
    BY LocalResponseSound DEF W, RW
  <2>. QED
    BY <1>4, <2>1, ClientModSound
<1>5. ASSUME NEW ka \in BOOLEAN,
             NEW u \in handler_dispatch(
                         SetConn(s, c, [k EXCEPT !.keep_alive = ka]), c),
             t \in AfterDispatch(u, c)
      PROVE  Sound(t)
  <2>1. Sound(SetConn(s, c, [k EXCEPT !.keep_alive = ka]))
    BY FlagSound, Zenon
  <2>2. Sound(u)
    BY <2>1, DispatchSound
  <2>. QED
    BY <1>5, <2>2, AfterDispatchSound, SMTT(60)
<1>6. CASE k.state # "TUNNEL"
  <2>1. \/ t \in {s, conn_pool_put(s, c),
                  worker_client_event_mod(LocalResponse(s, c), c, W)}
        \/ \E ka \in BOOLEAN :
             t \in UNION {AfterDispatch(u, c) : u \in handler_dispatch(
                            SetConn(s, c, [k EXCEPT !.keep_alive = ka]), c)}
    BY <1>6, ZenonT(60) DEF handle_read
  <2>. QED
    BY <1>2, <1>3, <1>4, <1>5, <2>1, Zenon
<1>. QED
  BY <1>1, <1>6

\* on_client_event: hang-up, then read, then write.
LEMMA OnClientEventSound ==
  ASSUME NEW s, Sound(s), NEW c \in Conns, NEW ev,
         NEW t \in on_client_event(s, c, ev)
  PROVE  Sound(t)
<1>. DEFINE afterRead == IF "READ" \in ev THEN handle_read(s, c) ELSE {s}
<1>1. \A u \in afterRead : Sound(u)
  BY HandleReadSound
<1>2. \/ t = Crash(s)
      \/ t = conn_pool_put(s, c)
      \/ t \in afterRead
      \/ \E u \in afterRead : t \in {u, Crash(u)} \/ t \in handle_write(u, c)
  BY Zenon DEF on_client_event
<1>. HIDE DEF afterRead
<1>. QED
  BY <1>1, <1>2, CrashSound, PoolPutSound, HandleWriteSound

\* conn_pool_get and the fields of a new connection.
LEMMA NewConnSound ==
  ASSUME NEW s, Sound(s), NEW f, InHand(s, f), NEW c \in PoolChoice(s)
  PROVE  Sound(NewConn(s, c, f))
<1>. DEFINE r == ResetConn(f)
            n == s.free_count - 1
            m == s.active_conns + 1
            a == s.accepted + 1
            t == IF s.free_head # NONE
                 THEN [s EXCEPT !.free_head = s.conn[c].next, !.free_count = n]
                 ELSE [s EXCEPT !.heap = s.heap \cup {c}]
            u == SetConn(t, c, r)
            x == [u EXCEPT !.accepted = a, !.active_conns = m]
<1>1. /\ s \in StateT /\ f \in Fds /\ c \in Conns /\ s.conn[c] \in ConnT
      /\ n \in Int /\ m \in Int /\ a \in Nat
  BY  DEF Sound, StateT, InHand, PoolChoice
<1>2. /\ r \in ConnT /\ r.fd = f /\ r.upstream_fd = NONE /\ r.file_fd = NONE
  BY <1>1, Zenon DEF ResetConn, ConnT, ConnState
<1>3. NewConn(s, c, f) = loop_ctl(x, f, "client", c, R)
  BY Zenon DEF NewConn, conn_pool_get
<1>. HIDE DEF r, n, m, a
<1>4. s.conn[c].next \in Conns \cup {NONE}
  BY <1>1 DEF ConnT
<1>5. /\ t \in StateT /\ t.conn = s.conn /\ t.handlers = s.handlers
      /\ t.open = s.open /\ t.batch = s.batch /\ t.fresh = s.fresh
      /\ t.idle_fds = s.idle_fds
  BY ONLY <1>1, <1>4, Zenon DEF StateT
<1>. HIDE DEF t
<1>6. /\ u \in StateT /\ u.conn = [s.conn EXCEPT ![c] = r]
      /\ u.handlers = s.handlers /\ u.open = s.open /\ u.batch = s.batch
      /\ u.fresh = s.fresh /\ u.idle_fds = s.idle_fds
  BY <1>1, <1>2, <1>5, SetConnFields
<1>. HIDE DEF u
<1>7. /\ x \in StateT /\ x.conn = [s.conn EXCEPT ![c] = r]
      /\ x.handlers = s.handlers /\ x.open = s.open /\ x.batch = s.batch
      /\ x.fresh = s.fresh /\ x.idle_fds = s.idle_fds
  BY <1>1, <1>6, Zenon DEF StateT
<1>. HIDE DEF x
<1>8. "client" \in {"client", "upstream"} /\ R \in SUBSET RW
  BY DEF R, RW
<1>. QED
  BY <1>1, <1>2, <1>3, <1>7, <1>8, RegisterSound

\* One turn of the accept loop.
LEMMA AcceptOneSound ==
  ASSUME NEW s, Sound(s), NEW t \in AcceptOne(s)
  PROVE  Sound(t)
<1>1. CASE t = s
  BY <1>1
<1>2. CASE t = [s EXCEPT !.accepted = s.accepted + 1]
  <2>. DEFINE n == s.accepted + 1
              x == [s EXCEPT !.accepted = n]
  <2>1. n \in Nat /\ t = x
    BY <1>2 DEF Sound, StateT
  <2>. HIDE DEF n
  <2>2. /\ x \in StateT /\ x.conn = s.conn /\ x.handlers = s.handlers
        /\ x.open = s.open /\ x.batch = s.batch /\ x.fresh = s.fresh
        /\ x.idle_fds = s.idle_fds
    BY <2>1, Zenon DEF Sound, StateT
  <2>. HIDE DEF x
  <2>. QED
    BY <2>1, <2>2, SameSound
<1>3. CASE t = Crash(s)
  BY <1>3, CrashSound, Zenon
<1>4. ASSUME NEW f \in Fds \ s.open, NEW c \in PoolChoice(s),
             t = NewConn([s EXCEPT !.open = s.open \cup {f}], c, f)
      PROVE  Sound(t)
  <2>. DEFINE x == [s EXCEPT !.open = s.open \cup {f}]
  <2>1. /\ x \in StateT /\ x.open = s.open \cup {f} /\ x.conn = s.conn
        /\ x.handlers = s.handlers /\ x.batch = s.batch
        /\ x.fresh = s.fresh /\ x.idle_fds = s.idle_fds
        /\ x.free_head = s.free_head /\ x.heap = s.heap
    BY Zenon DEF Sound, StateT
  <2>2. t = NewConn(x, c, f)
    BY <1>4
  <2>. HIDE DEF x
  <2>3. Sound(x) /\ InHand(x, f)
    BY <2>1, OpenSound
  <2>4. c \in PoolChoice(x)
    BY <2>1 DEF PoolChoice
  <2>. QED
    BY <2>2, <2>3, <2>4, NewConnSound
<1>. QED
  BY <1>1, <1>2, <1>3, <1>4, Zenon DEF AcceptOne

\* on_accept_event.
LEMMA OnAcceptEventSound ==
  ASSUME NEW s, Sound(s), NEW t \in on_accept_event(s)
  PROVE  Sound(t)
<1>1. \/ t \in AcceptOne(s)
      \/ \E u \in AcceptOne(s) : t = u \/ t \in AcceptOne(u)
  BY Zenon DEF on_accept_event
<1>. QED
  BY <1>1, AcceptOneSound

-----------------------------------------------------------------------------
(* Upstream events *)

UpstreamOf(s, f, c) ==
  s.handlers[f] # NONE /\ s.handlers[f].fn = "upstream" /\ s.handlers[f].ctx = c

\* The response is passed on to the client.
LEMMA RelaySound ==
  ASSUME NEW s, Sound(s), NEW c \in Conns, NEW p \in BOOLEAN, NEW f \in Fds,
         UpstreamOf(s, f, c)
  PROVE  Sound(Relay(s, c, p)) /\ UpstreamOf(Relay(s, c, p), f, c)
<1>. DEFINE r == [s.conn[c] EXCEPT !.upstream_rbuf = p]
            t == SetConn(s, c, r)
<1>0. s \in StateT /\ s.conn[c] \in ConnT
  BY DEF Sound, StateT
<1>1. s \in StateT /\ r \in ConnT
  BY <1>0 DEF ConnT
<1>2. Sound(t)
  BY FlagSound, Zenon
<1>3. t.handlers = s.handlers
  BY <1>1, SetConnFields, Zenon
<1>4. Relay(s, c, p) = IF p THEN worker_client_event_mod(t, c, RW) ELSE t
  BY DEF Relay
<1>. HIDE DEF t
<1>. QED
  BY <1>2, <1>3, <1>4, ClientModSound, SMTT(30) DEF UpstreamOf

\* The upstream descriptor is taken off the conn_t and the loop: it is in hand.
LEMMA UnlinkSound ==
  ASSUME NEW s, Sound(s), NEW c \in Conns, NEW f \in Fds, UpstreamOf(s, f, c)
  PROVE  Sound(Unlink(s, f, c)) /\ InHand(Unlink(s, f, c), f)
<1>. DEFINE r == [s.conn[c] EXCEPT !.upstream_fd = NONE]
<1>1. /\ s \in StateT /\ s.conn[c] \in ConnT /\ NONE \notin Fds
      /\ ClientHeld(s)
  BY WorkerAssumption DEF Sound, StateT
<1>2. /\ r \in ConnT /\ r.fd = s.conn[c].fd /\ r.upstream_fd = NONE
      /\ r.file_fd = s.conn[c].file_fd
  BY <1>1, SMTT(60) DEF ConnT
<1>3. event_loop_del(s, f).conn = s.conn
  BY <1>1, DelFields, Zenon
<1>4. Unlink(s, f, c) = SetConn(event_loop_del(s, f), c, r)
  BY <1>3 DEF Unlink
<1>5. r.fd # f
  BY <1>1, <1>2 DEF ClientHeld, UpstreamOf
<1>. HIDE DEF r
<1>6. /\ r.fd \in {s.conn[c].fd, NONE} \ {f}
      /\ r.upstream_fd \in {s.conn[c].upstream_fd, NONE} \ {f}
  BY ONLY <1>1, <1>2, <1>5
<1>7. s.handlers[f] # NONE /\ s.handlers[f].ctx = c
  BY DEF UpstreamOf
<1>8. /\ Sound(SetConn(event_loop_del(s, f), c, r))
      /\ InHand(SetConn(event_loop_del(s, f), c, r), f)
  BY <1>2, <1>6, <1>7, ReleaseSound, Zenon
<1>. QED
  BY ONLY <1>4, <1>8

\* The ways an exchange ends.
LEMMA UpstreamEndSound ==
  ASSUME NEW s, Sound(s), NEW c \in Conns, NEW f \in Fds, UpstreamOf(s, f, c)
  PROVE  Sound(UpstreamClosed(s, f, c)) /\ Sound(UpstreamError(s, f, c))
<1>. DEFINE x == [s EXCEPT !.eof = s.eof \cup {f}]
            t == Unlink(x, f, c)
<1>1. /\ x \in StateT /\ x.conn = s.conn /\ x.handlers = s.handlers
      /\ x.open = s.open /\ x.batch = s.batch /\ x.fresh = s.fresh
      /\ x.idle_fds = s.idle_fds
  BY ZenonT(60) DEF Sound, StateT
<1>2. UpstreamClosed(s, f, c) =
        worker_conn_close(
          IF t.conn[c].state # "TUNNEL" /\ t.conn[c].be # NONE
          THEN upstream_put_connection(t, t.conn[c].be, f) ELSE Close(t, f), c)
  BY Zenon DEF UpstreamClosed
<1>. HIDE DEF x
<1>3. Sound(x) /\ UpstreamOf(x, f, c)
  BY <1>1, SameSound DEF UpstreamOf
<1>4. Sound(t) /\ InHand(t, f)
  BY <1>3, UnlinkSound, SMTT(60)
<1>. HIDE DEF t
<1>5. t.conn[c].be # NONE => t.conn[c].be \in Backends
  BY ONLY <1>4 DEF Sound, StateT, ConnT
<1>6. Sound(UpstreamClosed(s, f, c))
  BY <1>2, <1>4, <1>5, IdlePushSound, CloseSound, WorkerConnCloseSound, Zenon
<1>7. Sound(UpstreamError(s, f, c))
  BY UnlinkSound, CloseSound, WorkerConnCloseSound, Zenon DEF UpstreamError
<1>. QED
  BY <1>6, <1>7

\* The read side of proxy_on_upstream_event.
LEMMA UpstreamReadSound ==
  ASSUME NEW s, Sound(s), NEW c \in Conns, NEW f \in Fds, UpstreamOf(s, f, c),
         NEW t \in UpstreamRead(s, f, c)
  PROVE  Sound(t)
<1>. DEFINE k == s.conn[c]
            left == IF f \in s.eof THEN {k.upstream_rbuf}
                    ELSE {k.upstream_rbuf} \cup Flush(k.fd, TRUE)
            reads == {Relay(s, c, p) : p \in left}
<1>1. left \subseteq BOOLEAN
  BY FlushBoolean, Zenon DEF Sound, StateT, ConnT
<1>2. \A u \in reads : Sound(u) /\ UpstreamOf(u, f, c)
  <2>. SUFFICES ASSUME NEW p \in left
                PROVE  Sound(Relay(s, c, p)) /\ UpstreamOf(Relay(s, c, p), f, c)
    BY Zenon
  <2>. QED
    BY <1>1, RelaySound, Zenon
<1>3. \/ t \in reads
      \/ \E u \in reads : t = UpstreamClosed(u, f, c) \/ t = UpstreamError(u, f, c)
  BY Zenon DEF UpstreamRead
<1>. HIDE DEF reads
<1>. QED
  BY <1>2, <1>3, UpstreamEndSound, SMTT(60)

\* proxy_on_upstream_event.
LEMMA OnUpstreamEventSound ==
  ASSUME NEW s, Sound(s), NEW c \in Conns, NEW f \in Fds, UpstreamOf(s, f, c),
         NEW ev, NEW t \in proxy_on_upstream_event(s, f, c, ev)
  PROVE  Sound(t)
<1>. DEFINE k == s.conn[c]
            r == [k EXCEPT !.upstream_wbuf = FALSE]
            x == SetConn(s, c, r)
            y == loop_ctl(x, f, "upstream", c, R)
<1>1. \/ t = Crash(s)
      \/ t = worker_conn_close(LocalResponse(s, c), c)
      \/ \E u \in {s, y} : t = u \/ t \in UpstreamRead(u, f, c)
  BY Zenon DEF proxy_on_upstream_event
<1>2. Sound(y) /\ UpstreamOf(y, f, c)
  <2>0. s \in StateT /\ s.conn[c] \in ConnT
    BY Zenon DEF Sound, StateT
  <2>1. s \in StateT /\ r \in ConnT /\ R \in SUBSET RW
    BY <2>0, Zenon DEF ConnT, R, RW
  <2>2. Sound(x) /\ x.handlers = s.handlers
    BY <2>1, FlagSound, SetConnFields, Zenon
  <2>. HIDE DEF x
  <2>. QED
    BY <2>1, <2>2, LoopCtlSound DEF UpstreamOf
<1>. HIDE DEF y
<1>. QED
  BY <1>1, <1>2, CrashSound, LocalResponseSound, WorkerConnCloseSound,
     UpstreamReadSound

-----------------------------------------------------------------------------
(* The specification *)

\* The worker starts with nothing open.
LEMMA InitSound == Init => Sound(S)
<1>. SUFFICES ASSUME Init PROVE Sound(S)
  OBVIOUS
<1>1. ResetConn(NONE) \in ConnT
  BY Zenon DEF ResetConn, ConnT, ConnState
<1>2. /\ conn = [c \in Conns |-> ResetConn(NONE)] /\ conn \in [Conns -> ConnT]
      /\ handlers = [f \in Fds |-> NONE] /\ batch = <<>> /\ fresh = {}
      /\ open = {} /\ idle_fds = [b \in Backends |-> <<>>]
  BY <1>1, Zenon DEF Init
<1>3. S \in StateT
  BY <1>2 DEF Init, S, StateT
<1>4. /\ S.conn = conn /\ S.handlers = handlers /\ S.batch = batch
      /\ S.fresh = fresh /\ S.open = open /\ S.idle_fds = idle_fds
  BY Zenon DEF S
<1>5. \A c \in Conns : /\ S.conn[c].fd = NONE /\ S.conn[c].upstream_fd = NONE
                       /\ S.conn[c].file_fd = NONE
  BY <1>2, <1>4 DEF ResetConn
<1>6. NONE \notin Fds
  BY ONLY WorkerAssumption
<1>7. Registered(S) /\ ClientHeld(S) /\ UpstreamHeld(S) /\ FileHeld(S)
  <2>1. Registered(S)
    BY ONLY <1>2, <1>4, Zenon DEF Registered
  <2>2. ClientHeld(S) /\ UpstreamHeld(S)
    BY ONLY <1>5, <1>6, Zenon DEF ClientHeld, UpstreamHeld
  <2>3. FileHeld(S)
    BY ONLY <1>5, <1>6, Zenon DEF FileHeld
  <2>. QED
    BY ONLY <2>1, <2>2, <2>3
<1>8. IdleHeld(S) /\ BatchLive(S)
  BY <1>2, <1>4 DEF IdleHeld, BatchLive
<1>. QED
  BY <1>3, <1>7, <1>8 DEF Sound

\* From a state value to the primed variables.
LEMMA BecomesSound ==
  ASSUME NEW s, Sound(s), Becomes(s)
  PROVE  Sound(S)'
<1>1. s \in StateT
  BY Zenon DEF Sound
<1>2. S' = s
  BY <1>1 DEF S, Becomes, StateT
<1>3. /\ Registered(s) /\ ClientHeld(s) /\ UpstreamHeld(s)
      /\ FileHeld(s) /\ IdleHeld(s) /\ BatchLive(s)
  BY Zenon DEF Sound
<1>4. (S \in StateT)'
  BY ONLY <1>1, <1>2, Zenon DEF StateT
<1>5. Registered(S)' /\ ClientHeld(S)' /\ UpstreamHeld(S)'
  BY ONLY <1>2, <1>3, Zenon DEF Registered, ClientHeld, UpstreamHeld
<1>6. FileHeld(S)'
  BY ONLY <1>2, <1>3 DEF FileHeld, Idle
<1>7. IdleHeld(S)'
  BY ONLY <1>2, <1>3 DEF IdleHeld
<1>8. BatchLive(S)'
  BY ONLY <1>2, <1>3 DEF BatchLive
<1>. QED
  BY ONLY <1>4, <1>5, <1>6, <1>7, <1>8, Zenon DEF Sound

\* epoll_wait reports registered descriptors only.
LEMMA EpollWaitSound == Sound(S) /\ epoll_wait => Sound(S)'
<1>. SUFFICES ASSUME Sound(S), epoll_wait PROVE Sound(S)'
  OBVIOUS
<1>0. PICK n \in 1..MaxEvents : \E q \in [1..n -> Reports] : batch' = q
  BY DEF epoll_wait
<1>1. PICK q \in [1..n -> Reports] : batch' = q
  BY <1>0, Zenon
<1>. DEFINE t == [S EXCEPT !.batch = q, !.fresh = {}]
<1>2. \A e \in Reports : /\ e \in EventT
                         /\ e.fd \in Fds => handlers[e.fd] # NONE
  <2>. SUFFICES ASSUME NEW e \in Reports
                PROVE  e \in EventT /\ (e.fd \in Fds => handlers[e.fd] # NONE)
    OBVIOUS
  <2>1. CASE e = [fd |-> LISTENER, ev |-> R, freed |-> FALSE]
    BY <2>1, WorkerAssumption, Zenon DEF EventT, R, RW
  <2>2. ASSUME NEW f \in Fds, handlers[f] # NONE, NEW v \in Readiness(f),
               e = [fd |-> f, ev |-> v, freed |-> FALSE]
        PROVE  e \in EventT /\ (e.fd \in Fds => handlers[e.fd] # NONE)
    <3>1. handlers[f] \in HandlerT
      BY <2>2, ZenonT(60) DEF Sound, S, StateT
    <3>2. v \in SUBSET (RW \cup {"HUP"})
      BY <2>2, <3>1, ZenonT(60) DEF Readiness, HandlerT
    <3>. QED
      BY <2>2, <3>2, SMTT(60) DEF EventT
  <2>. QED
    BY <2>1, <2>2, Zenon DEF Reports
<1>3. n \in Nat /\ q \in [1..n -> EventT]
  <2>1. n \in Nat
    BY WorkerAssumption, SMTT(60)
  <2>2. Reports \subseteq EventT
    BY <1>2
  <2>. QED
    BY <2>1, <2>2, SMTT(60)
<1>4. q \in Seq(EventT) /\ DOMAIN q = 1..n
  BY ONLY <1>3, SeqDef
<1>5. S.handlers = handlers
  BY DEF S
<1>6. S \in StateT
  BY DEF Sound
<1>7. /\ t \in StateT /\ t.batch = q /\ t.fresh = {} /\ t.conn = S.conn
      /\ t.handlers = S.handlers /\ t.open = S.open /\ t.idle_fds = S.idle_fds
  BY <1>4, <1>6, Zenon DEF StateT
<1>8. Becomes(t)
  BY <1>1, Zenon DEF epoll_wait, Becomes, S
<1>. HIDE DEF t
<1>9. BatchLive(t)
  BY ONLY <1>1, <1>2, <1>4, <1>5, <1>7 DEF BatchLive
<1>11. /\ Registered(S) /\ ClientHeld(S) /\ UpstreamHeld(S)
       /\ FileHeld(S) /\ IdleHeld(S)
  BY Zenon DEF Sound
<1>12. Registered(t) /\ ClientHeld(t) /\ UpstreamHeld(t)
  BY ONLY <1>7, <1>11 DEF Registered, ClientHeld, UpstreamHeld
<1>13. FileHeld(t) /\ IdleHeld(t)
  BY ONLY <1>7, <1>11 DEF FileHeld, IdleHeld, Idle
<1>10. Sound(t)
  BY ONLY <1>7, <1>9, <1>12, <1>13, Zenon DEF Sound
<1>. QED
  BY <1>8, <1>10, BecomesSound

\* Taking an event off the batch.
LEMMA PoppedSound ==
  ASSUME Sound(S), batch # <<>>
  PROVE  /\ Sound(Popped) /\ Popped.handlers = handlers
         /\ Head(batch) \in EventT
         /\ Head(batch).fd # LISTENER => Head(batch).fd \in Fds
         /\ Head(batch).fd \in Fds /\ ~Head(batch).freed
              => handlers[Head(batch).fd] # NONE
         /\ \A f \in fresh : f \in Fds /\ handlers[f] # NONE
<1>1. S \in StateT /\ BatchLive(S) /\ S.batch = batch /\ S.handlers = handlers
      /\ S.fresh = fresh
  BY DEF Sound, S
<1>2. batch \in Seq(EventT) /\ fresh \subseteq Fds
  BY <1>1 DEF StateT
<1>3. /\ Head(batch) \in EventT /\ Tail(batch) \in Seq(EventT)
      /\ 1 \in DOMAIN batch /\ Head(batch) = batch[1]
      /\ \A i \in DOMAIN Tail(batch) :
           i + 1 \in DOMAIN batch /\ Tail(batch)[i] = batch[i + 1]
  BY <1>2
<1>4. /\ Popped \in StateT /\ Popped.batch = Tail(batch)
      /\ Popped.handlers = S.handlers /\ Popped.conn = S.conn
      /\ Popped.fresh = S.fresh /\ Popped.open = S.open
      /\ Popped.idle_fds = S.idle_fds
  BY <1>1, <1>3, Zenon DEF Popped, StateT
<1>5. BatchLive(Popped)
  BY ONLY <1>1, <1>3, <1>4 DEF BatchLive
<1>8. /\ Registered(S) /\ ClientHeld(S) /\ UpstreamHeld(S)
      /\ FileHeld(S) /\ IdleHeld(S)
  BY Zenon DEF Sound
<1>9. Registered(Popped) /\ ClientHeld(Popped) /\ UpstreamHeld(Popped)
  BY ONLY <1>4, <1>8 DEF Registered, ClientHeld, UpstreamHeld
<1>10. FileHeld(Popped) /\ IdleHeld(Popped)
  BY ONLY <1>4, <1>8 DEF FileHeld, IdleHeld, Idle
<1>6. Sound(Popped)
  BY ONLY <1>4, <1>5, <1>9, <1>10, Zenon DEF Sound
<1>7. Head(batch).fd # LISTENER => Head(batch).fd \in Fds
  BY <1>3 DEF EventT
<1>. QED
  BY ONLY <1>1, <1>2, <1>3, <1>4, <1>6, <1>7, SMTT(30) DEF BatchLive

\* A callback, called through a handler block that is allocated.
LEMMA InvokeSound ==
  ASSUME Sound(S), batch # <<>>, NEW f \in Fds, handlers[f] # NONE, NEW ev,
         Invoke(f, ev)
  PROVE  Sound(S)'
<1>1. Sound(Popped) /\ Popped.handlers = handlers
  BY PoppedSound
<1>2. handlers[f].ctx \in Conns /\ handlers[f].fn \in {"client", "upstream"}
  BY Zenon DEF Sound, S, StateT, HandlerT
<1>3. CASE handlers[f].fn = "client"
  <2>1. PICK s \in on_client_event(Popped, handlers[f].ctx, ev) : Becomes(s)
    BY <1>3, Zenon DEF Invoke
  <2>2. Sound(s)
    BY ONLY <1>1, <1>2, <2>1, OnClientEventSound
  <2>. QED
    BY <2>1, <2>2, BecomesSound, SMTT(60)
<1>4. CASE handlers[f].fn = "upstream"
  <2>1. PICK s \in proxy_on_upstream_event(Popped, f, handlers[f].ctx, ev) :
               Becomes(s)
    BY <1>4, Zenon DEF Invoke
  <2>2. UpstreamOf(Popped, f, handlers[f].ctx)
    BY <1>1, <1>4, Zenon DEF UpstreamOf
  <2>3. Sound(s)
    BY ONLY <1>1, <1>2, <2>1, <2>2, OnUpstreamEventSound
  <2>. QED
    BY ONLY <2>1, <2>3, BecomesSound
<1>. QED
  BY ONLY <1>2, <1>3, <1>4

\* One step of the worker: each disjunct of Next, and stuttering.
LEMMA NextSound == Sound(S) /\ [Next]_vars => Sound(S)'
<1>. SUFFICES ASSUME Sound(S), [Next]_vars PROVE Sound(S)'
  OBVIOUS
<1>1. CASE epoll_wait
  BY <1>1, EpollWaitSound
<1>2. CASE DispatchAccept
  <2>1. PICK s \in on_accept_event(Popped) : Becomes(s)
    BY ONLY <1>2 DEF DispatchAccept
  <2>2. Sound(Popped)
    BY <1>2, PoppedSound DEF DispatchAccept, Dispatching
  <2>3. Sound(s)
    BY ONLY <2>1, <2>2, OnAcceptEventSound
  <2>. QED
    BY <2>1, <2>3, BecomesSound
<1>3. CASE Dispatch
  <2>1. batch # <<>> /\ Head(batch).fd # LISTENER /\ ~Head(batch).freed
        /\ Invoke(Head(batch).fd, Head(batch).ev)
    BY ONLY <1>3 DEF Dispatch, Dispatching
  <2>2. Head(batch).fd \in Fds /\ handlers[Head(batch).fd] # NONE
    BY <2>1, PoppedSound, Zenon
  <2>. QED
    BY <2>1, <2>2, InvokeSound, Zenon
<1>4. CASE DispatchFreed
  <2>1. batch # <<>>
    BY ONLY <1>4 DEF DispatchFreed, Dispatching
  <2>2. CASE Becomes(Crash(Popped))
    BY <2>1, <2>2, PoppedSound, CrashSound, BecomesSound, SMTT(60)
  <2>3. ASSUME NEW f \in fresh, Invoke(f, Head(batch).ev)
        PROVE  Sound(S)'
    BY <2>1, <2>3, PoppedSound, InvokeSound, SMTT(60)
  <2>. QED
    BY <1>4, <2>2, <2>3 DEF DispatchFreed
<1>5. CASE SignalStop \/ Drain
  <2>. DEFINE t == [S EXCEPT !.phase = phase']
  <2>1. phase' \in {"running", "stopping", "exited", "crashed"}
    BY <1>5 DEF SignalStop, Drain
  <2>2. Becomes(t)
    BY <1>5 DEF SignalStop, Drain, Becomes, S
  <2>3. /\ t \in StateT /\ t.conn = S.conn /\ t.handlers = S.handlers
        /\ t.open = S.open /\ t.batch = S.batch /\ t.fresh = S.fresh
        /\ t.idle_fds = S.idle_fds
    BY <2>1, Zenon DEF Sound, StateT
  <2>. HIDE DEF t
  <2>4. Sound(t)
    BY <2>3, SameSound
  <2>. QED
    BY ONLY <2>2, <2>4, BecomesSound
<1>6. CASE UNCHANGED vars
  <2>1. S \in StateT /\ Becomes(S)
    BY <1>6, Zenon DEF Sound, vars, Becomes, S
  <2>. QED
    BY <2>1, BecomesSound
<1>. QED
  BY <1>1, <1>2, <1>3, <1>4, <1>5, <1>6, SMTT(60) DEF Next

\* Sound contains the two properties.
LEMMA SoundImplies == Sound(S) => TypeOK /\ DescriptorsOwned
<1>. SUFFICES ASSUME Sound(S) PROVE TypeOK /\ DescriptorsOwned
  OBVIOUS
<1>1. /\ S.conn = conn /\ S.handlers = handlers /\ S.batch = batch
      /\ S.fresh = fresh /\ S.open = open /\ S.idle_fds = idle_fds
  BY Zenon DEF S
<1>2. TypeOK
  BY Zenon DEF Sound, S, StateT, TypeOK
<1>3. \A f : f \in IdleSet <=> Idle(S, f)
  BY <1>1 DEF IdleSet, Idle
<1>6. /\ Registered(S) /\ ClientHeld(S) /\ UpstreamHeld(S)
      /\ FileHeld(S) /\ IdleHeld(S)
  BY Zenon DEF Sound
<1>4. \A f \in IdleSet : f \in open /\ handlers[f] = NONE
  BY ONLY <1>1, <1>3, <1>6 DEF IdleHeld, Idle
<1>7. \A c \in Conns, f \in Fds :
        /\ conn[c].fd = f =>
             handlers[f] # NONE /\ handlers[f].fn = "client" /\ handlers[f].ctx = c
        /\ conn[c].upstream_fd = f =>
             handlers[f] # NONE /\ handlers[f].fn = "upstream" /\ handlers[f].ctx = c
  BY ONLY <1>1, <1>6 DEF ClientHeld, UpstreamHeld
<1>8. \A c \in Conns, f \in Fds : conn[c].file_fd = f =>
        /\ f \in open /\ handlers[f] = NONE /\ f \notin IdleSet
        /\ \A d \in Conns \ {c} : conn[d].file_fd # f
  BY ONLY <1>1, <1>3, <1>6 DEF FileHeld
<1>9. /\ \A f \in Fds : handlers[f] # NONE => f \in open
      /\ \A a, b \in Backends : \A i \in DOMAIN idle_fds[a], j \in DOMAIN idle_fds[b] :
           idle_fds[a][i] = idle_fds[b][j] => a = b /\ i = j
  BY ONLY <1>1, <1>6 DEF Registered, IdleHeld
<1>5. DescriptorsOwned
  BY ONLY <1>4, <1>7, <1>8, <1>9 DEF DescriptorsOwned
<1>. QED
  BY <1>2, <1>5

\* Sound is an invariant.
LEMMA SpecSound == Spec => []Sound(S)
<1>. QED
  BY InitSound, NextSound, PTL DEF Spec

\* The state of the worker is well typed: event_loop, conn_pool, the
\* connections and the idle pools only ever hold values of their C types.
THEOREM TypeCorrect == Spec => []TypeOK
<1>. QED
  BY SpecSound, SoundImplies, PTL

\* Every descriptor has one owner, for any number of clients, descriptors and
\* backends, any order of events and any batch size: conn_close and
\* proxy_on_upstream_event never close a number that was reused, even on the
\* paths where the conn_t itself is confused.
THEOREM DescriptorOwnership == Spec => []DescriptorsOwned
<1>. QED
  BY SpecSound, SoundImplies, PTL
=============================================================================
